---- MODULE Spec2Model ----
(***************************************************************************)
(* Model of the Modbus bridge synchronisation engine of                   *)
(* src/modbus_bridge.py (class ModbusBridge): the two run-flag locks, the *)
(* collector and provisioner worker threads, the snapshot message, the    *)
(* responder's changed-register ledger and the push/pull sync cycle.      *)
(*                                                                         *)
(* Naming follows the source: `host` is the requester (Modbus master)     *)
(* that talks to the field device, `client` is the responder (Modbus      *)
(* slave) that serves the supervisory system.                             *)
(*                                                                         *)
(* Python values are written by their repr ("True", "21"); a dict is a    *)
(* function whose DOMAIN is the set of its keys.                          *)
(***************************************************************************)
EXTENDS Integers, Sequences, FiniteSets, Bags, TLC

(***************************************************************************)
(* Bounds                                                                  *)
(***************************************************************************)
\* worker threads (of both kinds together) that can be alive at the same
\* time
MaxThreads == 3

\* host writes handled by the responder in one behaviour
MaxWrites == 2

\* seconds by which one step of the clock advances the timers
TickSeconds == 10

(***************************************************************************)
(* Program constants                                                       *)
(***************************************************************************)
collect_interval == 10

sync_interval == 10

RegTypes == <<"COILS", "HREGS", "ISTS", "IREGS">>

AllRegTypes == {RegTypes[i] : i \in 1..Len(RegTypes)}

ChangeableRegTypes == {"COILS", "HREGS"}

EmptyDict == [k \in {} |-> 0]

Put(d, k, v) == [x \in (DOMAIN d) \cup {k} |-> IF x = k THEN v ELSE d[x]]

Del(d, k) == [x \in (DOMAIN d) \ {k} |-> d[x]]

\* register files: key -> {register, len} per class.  FullFile defines
\* three of the four classes, SmallFile a single holding register.
FullFile ==
  [COILS |-> [pump  |-> [register |-> 1, len |-> 1]],
   HREGS |-> [temp  |-> [register |-> 1, len |-> 1]],
   ISTS  |-> [alarm |-> [register |-> 1, len |-> 1]]]

SmallFile ==
  [HREGS |-> [temp  |-> [register |-> 1, len |-> 1]]]

\* the classes a host can write
WritableFile ==
  [COILS |-> [pump  |-> [register |-> 1, len |-> 1]],
   HREGS |-> [temp  |-> [register |-> 1, len |-> 1]]]

\* one class a host can write and one it can only read
MixedFile ==
  [HREGS |-> [temp  |-> [register |-> 1, len |-> 1]],
   ISTS  |-> [alarm |-> [register |-> 1, len |-> 1]]]

\* a CONNECTION section as a register file carries it next to the classes
TcpMasterBlock ==
  [type |-> "tcp", unit |-> "10", address |-> "192.168.178.80", mode |-> "master"]

\* files for the read-all pass: three classes, one with two definitions
\* and one with a definition of two registers, next to a CONNECTION
\* section; a single holding register; no class at all
PlantFile ==
  [COILS |-> [pump  |-> [register |-> 1, len |-> 1],
              valve |-> [register |-> 2, len |-> 1]],
   HREGS |-> [temp  |-> [register |-> 1, len |-> 2]],
   IREGS |-> [flow  |-> [register |-> 2, len |-> 1]],
   CONNECTION |-> TcpMasterBlock]

SensorFile ==
  [HREGS |-> [temp  |-> [register |-> 2, len |-> 1]],
   ISTS  |-> [alarm |-> [register |-> 1, len |-> 1]]]

BareFile ==
  [CONNECTION |-> TcpMasterBlock]

ReadFiles == {PlantFile, SensorFile, BareFile}

\* addresses the field device knows per class
Addresses == {1}

\* addresses of the device the files above are read from, and what it holds
ReadAddresses == {1, 2}

BitValues == {"False", "True"}

RegValues == {"21", "22"}

ValuesOf(reg_type) ==
  IF reg_type \in {"COILS", "ISTS"} THEN BitValues ELSE RegValues

DefaultValue(reg_type) ==
  IF reg_type \in {"COILS", "ISTS"} THEN "False" ELSE "21"

DeviceHolds(reg_type, address) ==
  IF reg_type \in {"COILS", "ISTS"}
  THEN (IF address = 1 THEN "False" ELSE "True")
  ELSE (IF address = 1 THEN "21" ELSE "22")

Min(a, b) == IF a < b THEN a ELSE b

(***************************************************************************)
(* Construction: __init__, the register file and its CONNECTION section    *)
(***************************************************************************)
\* keys a connection block can have: the required ones, the baudrate and
\* one more
ConnectionKeys == {"type", "unit", "address", "mode", "baudrate", "parity"}

\* blocks with any of these keys; the type, unit and mode in spellings and
\* values the code accepts and in ones it rejects
ConnectionBlocks ==
  {[k \in K |-> CASE k = "type" -> t
                  [] k = "unit" -> u
                  [] k = "mode" -> m
                  [] k = "address" -> "x"
                  [] k = "baudrate" -> "9600"
                  [] OTHER -> "None"] :
     K \in SUBSET ConnectionKeys, t \in {"rtu", "TCP", "usb"},
     u \in {"502", "'502'"}, m \in {"slave", "Master", "peer"}}

\* sections that map a label to a block: a serving one, a polling one
LabelledBlock(label) ==
  IF label = "a"
  THEN [type |-> "tcp", unit |-> "502", address |-> "x", mode |-> "slave"]
  ELSE [type |-> "tcp", unit |-> "503", address |-> "y", mode |-> "master"]

LabelledSections ==
  {[label \in L |-> LabelledBlock(label)] : L \in (SUBSET {"a", "b"}) \ {{}}}

\* str.lower() on the spellings used here
Lower(str) ==
  CASE str = "RTU" -> "rtu"
    [] str = "TCP" -> "tcp"
    [] str = "Master" -> "master"
    [] str = "Slave" -> "slave"
    [] OTHER -> str

\* isinstance(val, int): the int values used here, as Python writes them
IsInt(val) == val \in {"0", "10", "502", "503"}

\* the truth value of a setting: 0, '' and None count as false
Truthy(val) == val \notin {"0", "''", "None"}

\* self._host = None, self._client = None.  cfg is a history field of a
\* handle: the settings it was built from
NoHandle ==
  [kind |-> "None", cfg |-> EmptyDict, address |-> "None", port |-> "None",
   baudrate |-> "None"]

\* no call of setup_connection() yet
NoSetup == [seq |-> 0, network |-> FALSE, bound |-> "None"]

\* the bridge object when __init__ has set its fields to their defaults;
\* file is what is at the path given: whether it exists, and its content.
\* constructed, error and warned are history fields: how far __init__ got,
\* the error it raised and the warning it logged; setup is one too: whether
\* an interface had an address at the last setup_connection(), and what the
\* new responder answered
FreshBridge(file) ==
  [file |-> file, constructed |-> "no", error |-> "none", warned |-> "none",
   setup |-> NoSetup,
   connection_settings_host |-> EmptyDict,
   connection_settings_client |-> EmptyDict,
   host_unit |-> "0", client_unit |-> "0",
   host |-> NoHandle, client |-> NoHandle]

\* raise ModbusBridgeError(...)
Raise(b, error) == [b EXCEPT !.error = error]

\* variant: a warning that ends the construction
WarnRaises(b, warning) == [b EXCEPT !.error = warning]

\* self.logger.warning(...)
Warn(b, warning) == [b EXCEPT !.warned = warning]

\* the host_unit and client_unit setters
host_unit_set(b, val) ==
  IF IsInt(val) THEN [b EXCEPT !.host_unit = val]
  ELSE Raise(b, "Host unit shall be int")

client_unit_set(b, val) ==
  IF IsInt(val) THEN [b EXCEPT !.client_unit = val]
  ELSE Raise(b, "Client unit shall be int")

\* the connection_settings_host and connection_settings_client setters
connection_settings_host_set(b, val) ==
  IF val = EmptyDict THEN b
  ELSE LET set == [b EXCEPT !.connection_settings_host = val]
       IN  IF "unit" \in DOMAIN val /\ Truthy(val["unit"])
           THEN host_unit_set(set, val["unit"]) ELSE set

connection_settings_client_set(b, val) ==
  IF val = EmptyDict THEN b
  ELSE LET set == [b EXCEPT !.connection_settings_client = val]
       IN  IF "unit" \in DOMAIN val /\ Truthy(val["unit"])
           THEN client_unit_set(set, val["unit"]) ELSE set

required_keys == {"type", "unit", "address", "mode"}

\* variant: the baudrate of an RTU block tested before the required keys
BaudrateTestedFirst(connection_config) ==
  /\ "type" \in DOMAIN connection_config
  /\ Lower(connection_config["type"]) = "rtu"

\* the test of the baudrate is made for a block of type rtu that has all
\* the required keys
BaudrateTested(connection_config) ==
  /\ required_keys \subseteq DOMAIN connection_config
  /\ Lower(connection_config["type"]) = "rtu"

\* variant: the mode decides the other way round
SettingsOfModeStraight(mode) ==
  CASE mode = "slave" -> "host" [] mode = "master" -> "client" [] OTHER -> "none"

\* which settings a mode fills: slave the client's, master the host's
SettingsOfMode(mode) ==
  CASE mode = "slave" -> "client" [] mode = "master" -> "host" [] OTHER -> "none"

\* variant: the settings are taken over before the block is validated
AdoptedEarly(b, connection_config) ==
  IF "mode" \in DOMAIN connection_config
       /\ SettingsOfMode(Lower(connection_config["mode"])) = "client"
  THEN [b EXCEPT !.connection_settings_client = connection_config]
  ELSE IF "mode" \in DOMAIN connection_config
            /\ SettingsOfMode(Lower(connection_config["mode"])) = "host"
       THEN [b EXCEPT !.connection_settings_host = connection_config]
       ELSE b

\* nothing of a block is stored before it is validated
AdoptedLate(b, connection_config) == b

\* the body of _load_connection_settings: the CONNECTION section is taken
\* as the one connection block.  The baudrate test is the first one made
\* for a block that has the required keys.
LoadBlock(b0, connection_config) ==
  LET b == AdoptedLate(b0, connection_config) IN
  IF BaudrateTested(connection_config) /\ "baudrate" \notin DOMAIN connection_config
  THEN Raise(b, "Missing baudrate in connection config")
  ELSE IF ~(required_keys \subseteq DOMAIN connection_config)
  THEN Warn(b, "Missing required keys")
  ELSE
    LET connection_type == Lower(connection_config["type"])
        connection_unit == connection_config["unit"]
        connection_mode == Lower(connection_config["mode"])
        settings == SettingsOfMode(connection_mode)
    IN  IF connection_type \notin {"rtu", "tcp"}
        THEN Raise(b, "Unknown connection type")
        ELSE IF ~IsInt(connection_unit)
        THEN Raise(b, "Connection unit shall be int")
        ELSE IF settings = "client"
        THEN LET set == connection_settings_client_set(b, connection_config)
             IN  IF set.error # "none" THEN set
                 ELSE client_unit_set(set, connection_unit)
        ELSE IF settings = "host"
        THEN LET set == connection_settings_host_set(b, connection_config)
             IN  IF set.error # "none" THEN set
                 ELSE host_unit_set(set, connection_unit)
        ELSE Raise(b, "Unknown connection mode")

\* _load_connection_settings
load_connection_settings(b, all_regs) ==
  IF all_regs = EmptyDict THEN Warn(b, "No register definitions")
  ELSE IF "CONNECTION" \notin DOMAIN all_regs \/ all_regs["CONNECTION"] = EmptyDict
  THEN Warn(b, "No CONNECTION in register definitions")
  ELSE LoadBlock(b, all_regs["CONNECTION"])

\* variant: a register_file setter that takes any path
RegisterFileTaken(file) == TRUE

\* the register_file setter: PathHelper.exists(path=path)
RegisterFileExists(file) == file.exists

\* _load_register_file, and the register_definitions setter that keeps a
\* value only if it is not empty
load_register_file(file) ==
  IF file.exists THEN file.content ELSE EmptyDict

\* __init__: the bridge object it leaves behind, constructed or failed
ModbusBridge(file) ==
  IF ~RegisterFileExists(file)
  THEN [Raise(FreshBridge(file), "Given register file does not exist")
          EXCEPT !.constructed = "failed"]
  ELSE LET b == load_connection_settings(FreshBridge(file), load_register_file(file))
       IN  [b EXCEPT !.constructed = IF b.error = "none" THEN "yes" ELSE "failed"]

\* a register file that exists, with this content
FileOf(content) == [exists |-> TRUE, content |-> content]

\* dict.get(key, default)
Get(d, key, default) == IF key \in DOMAIN d THEN d[key] ELSE default

\* int(val) of a number or of a string of digits; it raises for None
int(val) == IF val = "'502'" THEN "502" ELSE val

IntRaises(val) == val \notin {"0", "10", "502", "503", "'502'"}

\* the requester built from the client's settings: a handle, or the error
\* raised on the way
RequesterFor(cfg) ==
  LET type == Lower(Get(cfg, "type", "")) IN
  IF type = "rtu"
  THEN [error |-> "none",
        handle |-> [kind |-> "ModbusRTUMaster", cfg |-> cfg, address |-> "None",
                    port |-> "None", baudrate |-> Get(cfg, "baudrate", "9600")]]
  ELSE IF type = "tcp"
  THEN IF "address" \notin DOMAIN cfg \/ "unit" \notin DOMAIN cfg
       THEN [error |-> "KeyError", handle |-> NoHandle]
       ELSE IF IntRaises(cfg["unit"])
       THEN [error |-> "int() failed", handle |-> NoHandle]
       ELSE [error |-> "none",
             handle |-> [kind |-> "ModbusTCPMaster", cfg |-> cfg,
                         address |-> cfg["address"], port |-> int(cfg["unit"]),
                         baudrate |-> "None"]]
  ELSE [error |-> "none", handle |-> NoHandle]

\* what get_bound_status() of a new ModbusTCP can do
BoundOutcomes == {"False", "True", "raise"}

\* network.WLAN(network.STA_IF): not active, active but not connected, or
\* connected
Stations == {"off", "active", "connected"}

\* variant: no default address, None when no interface yields one
get_network_ip_or_none(station, accesspoint) ==
  IF station = "connected" THEN "192.168.178.2"
  ELSE IF accesspoint THEN "192.168.4.1"
  ELSE "None"

\* _get_network_ip(): the station's IP when it is active and connected,
\* else the access point's when that is active, else the default
get_network_ip(station, accesspoint) ==
  IF station = "connected" THEN "192.168.178.2"
  ELSE IF accesspoint THEN "192.168.4.1"
  ELSE "0.0.0.0"

\* what _get_network_ip() can return: the IP of the station or access
\* point, or its default
LocalIps ==
  {get_network_ip(station, accesspoint) :
     station \in Stations, accesspoint \in BOOLEAN}

\* the responder built from the host's settings, where env says what the
\* network and the new responder answer
ResponderFor(cfg, env) ==
  LET type == Lower(Get(cfg, "type", "")) IN
  IF type = "rtu"
  THEN [error |-> "none",
        handle |-> [kind |-> "ModbusRTU", cfg |-> cfg,
                    address |-> Get(cfg, "unit", "None"), port |-> "None",
                    baudrate |-> Get(cfg, "baudrate", "9600")]]
  ELSE IF type = "tcp"
  THEN IF env.bound = "raise"
       THEN [error |-> "No get_bound_status function", handle |-> NoHandle]
       ELSE IF env.bound = "True"
       THEN [error |-> "NameError: port", handle |-> NoHandle]
       ELSE IF "unit" \notin DOMAIN cfg
       THEN [error |-> "KeyError", handle |-> NoHandle]
       ELSE IF IntRaises(cfg["unit"])
       THEN [error |-> "int() failed", handle |-> NoHandle]
       ELSE [error |-> "none",
             handle |-> [kind |-> "ModbusTCP", cfg |-> cfg,
                         address |-> env.local_ip, port |-> int(cfg["unit"]),
                         baudrate |-> "None"]]
  ELSE [error |-> "none", handle |-> NoHandle]

\* the two debug lines at the end of setup_connection: the error the
\* formatting of their arguments raises, if any
SetupLogError(client_cfg, host_cfg) ==
  IF ~({"type", "unit"} \subseteq DOMAIN client_cfg) THEN "KeyError"
  ELSE IF "type" \notin DOMAIN host_cfg THEN "KeyError"
  ELSE IF Lower(host_cfg["type"]) # "tcp" THEN "NameError: local_ip"
  ELSE IF "unit" \notin DOMAIN host_cfg THEN "KeyError"
  ELSE "none"

\* setup_connection: the bridge it leaves behind
SetupConnection(b, env) ==
  LET requester == RequesterFor(b.connection_settings_client)
      responder == ResponderFor(b.connection_settings_host, env)
  IN  IF requester.error # "none" THEN Raise(b, requester.error)
      ELSE IF responder.error # "none" THEN Raise(b, responder.error)
      ELSE Raise([b EXCEPT !.host = requester.handle,
                           !.client = responder.handle],
                 SetupLogError(b.connection_settings_client,
                               b.connection_settings_host))

\* complete blocks that pass every test of _load_connection_settings,
\* serial and TCP, of either mode
ValidBlocks ==
  {[type |-> "rtu", unit |-> "10", address |-> "/dev/tty1", mode |-> "slave",
    baudrate |-> "19200"],
   [type |-> "tcp", unit |-> "502", address |-> "x", mode |-> "slave"],
   [type |-> "rtu", unit |-> "10", address |-> "/dev/tty2", mode |-> "master",
    baudrate |-> "9600"],
   [type |-> "tcp", unit |-> "503", address |-> "y", mode |-> "master"]}

\* register files for setup_connection: with any of these blocks as
\* CONNECTION section, or without one
SetupFiles ==
  {FileOf(SmallFile)}
  \cup {FileOf(Put(SmallFile, "CONNECTION", block)) : block \in ValidBlocks}


\* what can be at the path given to __init__: nothing, an empty file, a
\* file of registers only, and files with a CONNECTION section
ConfigFiles ==
  {[exists |-> FALSE, content |-> EmptyDict], FileOf(EmptyDict),
   FileOf(SmallFile)}
  \cup {FileOf(Put(SmallFile, "CONNECTION", section)) :
          section \in ConnectionBlocks \cup LabelledSections}

VARIABLES
  bridge,               \* the fields __init__ sets up, see FreshBridge
  register_definitions, \* self._register_definitions, loaded at construction
  collect_lock,        \* self._collect_lock.locked()
  provision_lock,      \* self._provision_lock.locked()
  cthreads,            \* bag of the threads running _collect_client_data
  pthreads,            \* bag of the threads running _provision_host_data
  client_data_msg,     \* value held by self._client_data_msg
  client_data,         \* self._client_data
  changed_registers,   \* self.client.changed_registers (the change ledger)
  ticks_ms,            \* time.ticks_ms() as seen by the responder
  image,               \* register image the responder serves to the host
  device,              \* registers of the field device behind the requester
  last_call,           \* history: the last start/stop call and how it went
  req_writes,          \* history: (class, address) of every requester write
  write_result,        \* last write_all_registers call made from outside the
                       \* workers: its batch and the two dicts it returned
  led,                 \* the LedHelper object, its pin, pixel and threads
  wifi                 \* the WLAN station, and the wifi_helper call under way

vars == <<bridge, register_definitions, collect_lock, provision_lock, cthreads,
          pthreads, client_data_msg, client_data, changed_registers, ticks_ms,
          image, device, last_call, req_writes, write_result, led, wifi>>

\* the variables of the bridge
bridge_vars == <<bridge, register_definitions, collect_lock, provision_lock,
                 cthreads, pthreads, client_data_msg, client_data,
                 changed_registers, ticks_ms, image, device, last_call,
                 req_writes, write_result>>

(***************************************************************************)
(* LedHelper and the wifi station as they are constructed                   *)
(***************************************************************************)
\* self._neopixel_colors['red'], the colour LedHelper starts with
DefaultColor == <<30, 0, 0>>

\* the colour of a cleared pixel
Dark == <<0, 0, 0>>

\* max(color)
MaxOf(color) ==
  CHOOSE m \in {color[i] : i \in 1..Len(color)} :
    \A i \in 1..Len(color) : color[i] <= m

\* LedHelper.__init__, with the level the LED pin is at and the colour the
\* pixel was set to; note is a history field: the last call of a setter of
\* blinking or fading, whether it found the lock held, a mark that flips
\* with every call, and whether any call has started a thread yet
LedHelper(pin_value, color) ==
  [led_pin |-> pin_value,
   blink_lock |-> FALSE, blink_delay |-> 250, bthreads |-> EmptyBag,
   fade_lock |-> FALSE, fading |-> FALSE, fthreads |-> EmptyBag,
   note |-> [op |-> "none", locked |-> FALSE, seq |-> 0, started |-> FALSE],
   pixel |-> IF color = DefaultColor THEN Dark ELSE color,
   neopixel_active |-> color # DefaultColor,
   neopixel_color |-> color,
   neopixel_intensity |-> MaxOf(color)]

\* no arguments of a connect call
NoArgs == [form |-> "none", ssid |-> <<>>, timeout |-> 0, reconnect |-> FALSE]

\* network.WLAN(network.STA_IF) and its surroundings before any call of
\* wifi_helper: the network the station is connected to, the networks that
\* accept it, whether the last reset was a soft one, and what a scan finds;
\* the other fields belong to the call under way, see connect and
\* get_wifi_networks; attempts and seq are history fields: the _do_connect
\* calls of the connect call with what they returned, and a mark that flips
\* with every connect call
Station(connected, reachable, soft_reset, found_networks, sort_key) ==
  [active |-> connected # "none", connected |-> connected,
   reachable |-> reachable, soft_reset |-> soft_reset,
   pc |-> "idle", args |-> NoArgs, idx |-> 0, elapsed |-> 0,
   attempts |-> <<>>, is_connected |-> FALSE, seq |-> 0,
   found_networks |-> found_networks, sort_key |-> sort_key,
   scanned |-> FALSE, network_list |-> <<>>]

WifiIdle == Station("none", {}, FALSE, <<>>, "RSSI")

(***************************************************************************)
(* Thread records                                                          *)
(***************************************************************************)
\* A thread is the record of its position and locals; threads of one kind
\* have no names, so the threads alive form a bag of such records.
\* reads is a history field: the requester reads of the pass under way.
IdleCollector ==
  [pc |-> "loop", idx |-> 0, todo |-> {}, register_content |-> EmptyDict,
   read_content |-> EmptyDict, slept |-> 0, pass |-> 0, reads |-> <<>>]

\* cycle_keys and attempted are history fields of the current sync cycle:
\* the ledger keys met at its start, and the class, address, timestamp and
\* outcome of every write issued; retried is the history of the entries
\* whose write failed in an earlier cycle of the thread; syncs is the number
\* of sync cycles begun since the thread last called self.client.process()
IdleProvisioner ==
  [pc |-> "loop", since_update |-> 0, idx |-> 0, cursor |-> 0,
   failed |-> EmptyDict, successful |-> EmptyDict, to_remove |-> {},
   snapshot |-> EmptyDict, pull |-> {}, cycle_keys |-> {}, attempted |-> {},
   retried |-> {}, syncs |-> 0]

LiveCollectors == BagCardinality(cthreads)

LiveProvisioners == BagCardinality(pthreads)

\* the bag after thread th has become the thread new
Step(threads, th, new) == (threads (-) SetToBag({th})) (+) SetToBag({new})

\* the bag after thread th has ended
Exit(threads, th) == threads (-) SetToBag({th})

\* the bag with a thread added
Spawn(threads, new) == threads (+) SetToBag({new})

\* the bridge after construction from the given register file and
\* setup_connection
InitWith(file) ==
  /\ register_definitions = file
  /\ collect_lock = FALSE
  /\ provision_lock = FALSE
  /\ cthreads = EmptyBag
  /\ pthreads = EmptyBag
  /\ client_data_msg = EmptyDict
  /\ client_data = EmptyDict
  /\ changed_registers = [r \in ChangeableRegTypes |-> EmptyDict]
  /\ ticks_ms = 0
  /\ image = [r \in AllRegTypes |-> [a \in Addresses |-> DefaultValue(r)]]
  /\ device = [r \in AllRegTypes |-> [a \in Addresses |-> DefaultValue(r)]]
  /\ last_call = [op |-> "none", locked |-> FALSE, raised |-> FALSE,
                  seq |-> 0, fresh |-> TRUE]
  /\ req_writes = {}
  /\ led = LedHelper(1, DefaultColor)
  /\ wifi = WifiIdle
  /\ write_result = [batch |-> EmptyDict, outcomes |-> EmptyDict,
                     raised |-> FALSE,
                     failed |-> EmptyDict, successful |-> EmptyDict]
  /\ bridge = ModbusBridge(FileOf(register_definitions))

(***************************************************************************)
(* Start / stop controls (the two property setters)                        *)
(***************************************************************************)
\* variant: a start branch without the test of the lock
StartsWorkerAlways(value, locked) == value

\* first branch of the setters: start only if not already running
StartsWorker(value, locked) == value /\ ~locked

\* variant: a stop branch without the test of the lock
StopsWorkerAlways(value, locked) == (value = FALSE)

\* second branch of the setters: stop only if running
StopsWorker(value, locked) == (value = FALSE) /\ locked

\* _thread.start_new_thread(self._collect_client_data, params)
NewCollector == IdleCollector

\* _thread.start_new_thread(self._provision_host_data, params);
\* the thread begins with last_update = time.time()
NewProvisioner == IdleProvisioner

\* history of a setter call: its name, whether the lock was held when it
\* was made, and whether it raised (lock.release() of a lock that is not
\* held raises RuntimeError); seq flips with every call, and fresh holds
\* until the first stop call
CallNote(name, locked, stops) ==
  [op |-> name, locked |-> locked, raised |-> stops /\ ~locked,
   seq |-> 1 - last_call.seq,
   fresh |-> last_call.fresh /\ name \notin {"stop_collecting",
                                              "stop_provisioning"}]

\* variant: a collector setter whose stop branch releases both locks
collecting_client_data_set_both(value) ==
  LET starts == StartsWorker(value, collect_lock)
      stops  == ~starts /\ StopsWorker(value, collect_lock)
  IN  /\ starts => LiveCollectors + LiveProvisioners < MaxThreads
      /\ last_call' = CallNote(IF value THEN "start_collecting"
                                        ELSE "stop_collecting",
                               collect_lock, stops)
      /\ collect_lock' = IF starts THEN TRUE
                         ELSE IF stops THEN FALSE ELSE collect_lock
      /\ provision_lock' = IF stops THEN FALSE ELSE provision_lock
      /\ cthreads' = IF starts THEN Spawn(cthreads, NewCollector)
                     ELSE cthreads
      /\ UNCHANGED <<bridge, register_definitions, pthreads,
                     client_data_msg, client_data, changed_registers,
                     ticks_ms, image, device, req_writes, write_result, led, wifi>>

collecting_client_data_set(value) ==
  LET starts == StartsWorker(value, collect_lock)
      stops  == ~starts /\ StopsWorker(value, collect_lock)
  IN  /\ starts => LiveCollectors + LiveProvisioners < MaxThreads
      /\ last_call' = CallNote(IF value THEN "start_collecting"
                                        ELSE "stop_collecting",
                               collect_lock, stops)
      /\ collect_lock' = IF starts THEN TRUE
                         ELSE IF stops THEN FALSE ELSE collect_lock
      /\ cthreads' = IF starts THEN Spawn(cthreads, NewCollector)
                     ELSE cthreads
      /\ UNCHANGED <<bridge, register_definitions, provision_lock, pthreads,
                     client_data_msg, client_data, changed_registers,
                     ticks_ms, image, device, req_writes, write_result, led, wifi>>

provisioning_host_data_set(value) ==
  LET starts == StartsWorker(value, provision_lock)
      stops  == ~starts /\ StopsWorker(value, provision_lock)
  IN  /\ starts => LiveCollectors + LiveProvisioners < MaxThreads
      /\ last_call' = CallNote(IF value THEN "start_provisioning"
                                        ELSE "stop_provisioning",
                               provision_lock, stops)
      /\ provision_lock' = IF starts THEN TRUE
                           ELSE IF stops THEN FALSE ELSE provision_lock
      /\ pthreads' = IF starts THEN Spawn(pthreads, NewProvisioner)
                     ELSE pthreads
      /\ UNCHANGED <<bridge, register_definitions, collect_lock, cthreads,
                     client_data_msg, client_data, changed_registers,
                     ticks_ms, image, device, req_writes, write_result, led, wifi>>

(***************************************************************************)
(* Construction of the bridge and the calls on the constructed object      *)
(***************************************************************************)
\* __init__(register_file): the two setters called with False find no lock
\* held; then the file, its definitions and its connection settings
Construct ==
  /\ bridge.constructed = "no"
  /\ collect_lock' = (collect_lock /\ ~StopsWorker(FALSE, collect_lock))
  /\ provision_lock' = (provision_lock /\ ~StopsWorker(FALSE, provision_lock))
  /\ register_definitions' =
       IF RegisterFileExists(bridge.file)
            /\ load_register_file(bridge.file) # EmptyDict
       THEN load_register_file(bridge.file) ELSE register_definitions
  /\ bridge' = ModbusBridge(bridge.file)
  /\ UNCHANGED <<cthreads, pthreads, client_data_msg, client_data,
                 changed_registers, ticks_ms, image, device, last_call,
                 req_writes, write_result, led, wifi>>

\* only a caller for whom __init__ has returned has a bridge to call
StartCollecting ==
  bridge.constructed = "yes" /\ collecting_client_data_set(TRUE)

StartProvisioning ==
  bridge.constructed = "yes" /\ provisioning_host_data_set(TRUE)

\* bridge.connection_settings_host = val or
\* bridge.connection_settings_client = val, from outside
SetSettings(settings, val) ==
  /\ bridge.constructed = "yes"
  /\ bridge' =
       IF settings = "host"
       THEN connection_settings_host_set([bridge EXCEPT !.error = "none"], val)
       ELSE connection_settings_client_set([bridge EXCEPT !.error = "none"], val)
  /\ UNCHANGED <<register_definitions, collect_lock, provision_lock, cthreads,
                 pthreads, client_data_msg, client_data, changed_registers,
                 ticks_ms, image, device, last_call, req_writes, write_result, led, wifi>>

\* setup_connection(): a responder that was built is a new one, with an
\* empty ledger and, for TCP, the registers of the file at their defaults
setup_connection(env) ==
  LET local_ip == get_network_ip(env.station, env.accesspoint)
      after == SetupConnection([bridge EXCEPT !.error = "none"],
                               [local_ip |-> local_ip, bound |-> env.bound])
      fresh == after.client # bridge.client /\ after.client.kind # "None"
  IN  /\ bridge.constructed = "yes"
      /\ bridge' = [after EXCEPT !.setup =
                       [seq |-> 1 - @.seq,
                        network |-> (env.station = "connected"
                                       \/ env.accesspoint),
                        bound |-> env.bound]]
      /\ changed_registers' =
           IF fresh THEN [r \in ChangeableRegTypes |-> EmptyDict]
           ELSE changed_registers
      /\ image' =
           IF fresh /\ after.client.kind = "ModbusTCP"
           THEN [r \in DOMAIN image |->
                   [a \in DOMAIN image[r] |-> DefaultValue(r)]]
           ELSE image
      /\ UNCHANGED <<register_definitions, collect_lock, provision_lock,
                     cthreads, pthreads, client_data_msg, client_data,
                     ticks_ms, device, last_call, req_writes, write_result, led, wifi>>

(***************************************************************************)
(* Requester reads (read_all_registers and the read_*_registers methods)   *)
(***************************************************************************)
ReadOutcomes == {"ok", "raise"}

\* variant: a requester read made outside any try block
ReadEscapes(outcome) == FALSE

\* `except Exception as e:` around the requester read and the storing of
\* its result: a raising read is caught where it is made
ReadCaught(outcome) == TRUE

\* variant: one requester read per kind of value
ReadOperationByValue(reg_type) ==
  IF reg_type \in {"COILS", "ISTS"} THEN "read_coils"
  ELSE "read_holding_registers"

\* the requester method each read_*_registers method calls
ReadOperation(reg_type) ==
  CASE reg_type = "COILS" -> "read_coils"
    [] reg_type = "HREGS" -> "read_holding_registers"
    [] reg_type = "ISTS"  -> "read_discrete_inputs"
    [] reg_type = "IREGS" -> "read_input_registers"

\* history: the note of one requester read, with the key of the definition
\* it was made for and how it ended
ReadNote(reg_type, key, def, outcome) ==
  [op |-> ReadOperation(reg_type), key |-> key, starting_addr |-> def.register,
   qty |-> def.len, outcome |-> outcome]

\* the tuple the requester returns for `len` registers from `register` on
ReadTuple(reg_type, def) ==
  [i \in 1..def.len |-> device[reg_type][def.register + i - 1]]

\* the entry as it would be stored were every result kept as a list
RegisterEntryAsList(def, status, pass) ==
  [register |-> def.register,
   val |-> status,
   pass |-> pass,
   listed |-> TRUE]

\* the entry stored for one definition; `pass` is a history field naming
\* the read-all pass that produced the entry, `listed` a history field
\* naming the branch taken: the result converted to a list, or its only
\* element taken out
RegisterEntry(def, status, pass) ==
  [register |-> def.register,
   val |-> IF Len(status) = 1 THEN status[1] ELSE status,
   pass |-> pass,
   listed |-> Len(status) # 1]

\* variant: a read that stores the value in the definition itself
DefinitionAfterReadInPlace(def, entry) ==
  [register |-> def.register, len |-> def.len, val |-> entry.val]

\* the definition after its read: the entry stored is a dict of its own,
\* and nothing is written to the definition
DefinitionAfterRead(def, entry) == def

\* position in RegTypes, from i on, of the next class the file defines
NextDefined(i) ==
  LET S == {j \in i..Len(RegTypes) : RegTypes[j] \in DOMAIN register_definitions}
  IN  IF S = {} THEN Len(RegTypes) + 1
      ELSE CHOOSE j \in S : \A k \in S : j <= k

\* read_all_registers turns to class number i: a fresh register_content
\* and the definitions of that class still to be read
BeginClass(th, i) ==
  [th EXCEPT !.idx = i,
             !.todo = IF i <= Len(RegTypes)
                      THEN DOMAIN register_definitions[RegTypes[i]] ELSE {},
             !.register_content = EmptyDict]

\* read_content['COILS'] = coil_register_content, and so on
EndClass(th) ==
  [th EXCEPT !.read_content = Put(@, RegTypes[th.idx], th.register_content)]

\* read_all_registers has its result once every class was handled
ReadAllDone(idx) == idx > Len(RegTypes)

\* the thread moves on to its next requester read, or to the end of the pass
RECURSIVE Settle(_)
Settle(th) ==
  IF ReadAllDone(th.idx) THEN [th EXCEPT !.pc = "publish"]
  ELSE IF th.todo = {}
       THEN Settle(BeginClass(EndClass(th), NextDefined(th.idx + 1)))
       ELSE [th EXCEPT !.pc = "read"]

(***************************************************************************)
(* Collector worker: _collect_client_data                                  *)
(***************************************************************************)
\* variant: a loop that does not test the lock
CollectorNeverEnds(locked) == TRUE

\* `while lock.locked():`
CollectorContinues(locked) == locked

\* variant: a publication that replaces the holding registers only
PublishedByClass(read_content, msg_value) ==
  [r \in DOMAIN read_content |->
     IF r = "HREGS" \/ r \notin DOMAIN msg_value
     THEN read_content[r] ELSE msg_value[r]]

\* what msg.set() stores
Published(read_content, msg_value) == read_content

CollectUnchanged ==
  UNCHANGED <<bridge, register_definitions, collect_lock, provision_lock, pthreads,
              client_data, changed_registers, ticks_ms, image, device,
              last_call, req_writes, write_result, led, wifi>>

\* variant: a sleep that ends as soon as the lock is released
SleepReturnsOnRelease(slept, locked) == slept >= collect_interval \/ ~locked

\* `time.sleep(interval)` returns when the interval is over, and only then
SleepReturns(slept, locked) == slept >= collect_interval

\* history: the mark of the pass after one marked `pass`, where `marks` are
\* the marks in use
NextMark(pass, marks) == IF (1 - pass) \in marks THEN 1 - pass ELSE pass

\* the loop test, at thread start or when time.sleep(interval) has
\* returned; entering the body starts read_all_registers
CollectLoop(th, marks) ==
  /\ \/ th.pc = "loop"
     \/ th.pc = "sleep" /\ SleepReturns(th.slept, collect_lock)
  /\ cthreads' =
       IF CollectorContinues(collect_lock)
       THEN Step(cthreads, th,
                 Settle(BeginClass([th EXCEPT !.read_content = EmptyDict,
                                              !.slept = 0, !.reads = <<>>,
                                              !.pass = NextMark(th.pass, marks)],
                                   NextDefined(1))))
       ELSE Exit(cthreads, th)
  /\ UNCHANGED client_data_msg
  /\ CollectUnchanged

\* one iteration of `for key, val in modbus_registers.items():` in a
\* read_*_registers method: one requester read
CollectRegister(th, outcome) ==
  LET reg_type == RegTypes[th.idx]
      key == CHOOSE k \in th.todo : TRUE
      def == register_definitions[reg_type][key]
      entry == RegisterEntry(def, ReadTuple(reg_type, def), th.pass)
  IN
  /\ th.pc = "read"
  /\ cthreads' =
       IF outcome = "raise" /\ ~ReadCaught(outcome)
       THEN Exit(cthreads, th)
       ELSE Step(cthreads, th,
         Settle([th EXCEPT !.todo = th.todo \ {key},
                           !.reads = Append(@, ReadNote(reg_type, key, def, outcome)),
                           !.register_content =
                              IF outcome = "ok"
                              THEN Put(th.register_content, key, entry)
                              ELSE th.register_content]))
  /\ register_definitions' =
       IF outcome = "ok"
       THEN [register_definitions EXCEPT
               ![reg_type][key] = DefinitionAfterRead(def, entry)]
       ELSE register_definitions
  /\ UNCHANGED <<bridge, collect_lock, provision_lock, pthreads,
                 client_data_msg, client_data, changed_registers, ticks_ms,
                 image, device, last_call, req_writes, write_result, led, wifi>>

\* msg.set(read_content), then time.sleep(interval) begins
CollectPublish(th) ==
  /\ th.pc = "publish"
  /\ client_data_msg' = Published(th.read_content, client_data_msg)
  /\ cthreads' = Step(cthreads, th,
       [th EXCEPT !.pc = "sleep", !.slept = 0, !.read_content = EmptyDict,
                  !.idx = 0, !.reads = <<>>])
  /\ CollectUnchanged

Collector(th, outcomes, marks) ==
  \/ CollectLoop(th, marks)
  \/ \E outcome \in outcomes : CollectRegister(th, outcome)
  \/ CollectPublish(th)

(***************************************************************************)
(* Responder (self.client): change ledger and register image               *)
(***************************************************************************)
LedgerKeys(ledger) ==
  {ck \in (DOMAIN ledger) \X Addresses : ck[2] \in DOMAIN ledger[ck[1]]}

\* the responder notes a host write: one entry per class and address,
\* stamped with time.ticks_ms()
set_changed_register(ledger, reg_type, address, value, time) ==
  [ledger EXCEPT ![reg_type] = Put(@, address, [val |-> value, time |-> time])]

\* compare-and-delete: the entry goes only if it still carries `timestamp`;
\* an address that is not in the ledger raises KeyError, which
\* _update_client_data catches
remove_changed_register(ledger, reg_type, address, timestamp) ==
  IF /\ reg_type \in DOMAIN ledger
     /\ address \in DOMAIN ledger[reg_type]
     /\ ledger[reg_type][address].time = timestamp
  THEN [ledger EXCEPT ![reg_type] = Del(@, address)]
  ELSE ledger

\* set_coil / set_hreg / set_ist / set_ireg
set_register(img, reg_type, address, value) ==
  [img EXCEPT ![reg_type][address] = value]

\* the responder handles one write request of the host
HostWriteEffect(reg_type, address, value) ==
  /\ ticks_ms < MaxWrites
  /\ ticks_ms' = ticks_ms + 1
  /\ changed_registers' =
       set_changed_register(changed_registers, reg_type, address, value,
                            ticks_ms + 1)
  /\ image' = set_register(image, reg_type, address, value)

\* write requests the responder accepts: to a changeable register it was
\* set up with
HostWrites ==
  {w \in ChangeableRegTypes \X Addresses \X (BitValues \cup RegValues) :
     w[1] \in DOMAIN register_definitions /\ w[3] \in ValuesOf(w[1])}

(***************************************************************************)
(* Requester writes (write_all_registers and the write_*_registers)        *)
(***************************************************************************)
WriteOutcomes == {"ok", "false", "raise"}

\* variant: a writer that takes every returned status for a success
OperationStatusReturned(outcome) == outcome # "raise"

\* operation_status: False unless the call returned a true status
OperationStatus(outcome) == outcome = "ok"

\* variant: a requester write made outside any try block
WriteEscapes(outcome) == FALSE

\* `except Exception as e:` around the requester write: a raising write is
\* caught where it is made
WriteCaught(outcome) == TRUE

\* variant: a write_all_registers that forgets the holding registers
WriteRegTypesCoilsOnly == <<"COILS">>

\* variant: a write_all_registers with writers for all four classes
WriteRegTypesAll == <<"COILS", "HREGS", "ISTS", "IREGS">>

\* classes write_all_registers has a writer for, in the order it takes them
WriteRegTypes == <<"COILS", "HREGS">>

\* `if register_value is True:` of write_coil_registers
CoilOutputValue(register_value) ==
  IF register_value = "True" THEN "0xFF00" ELSE "0x0000"

\* value sent to the device for an entry of the given class
OutputValue(reg_type, register_value) ==
  IF reg_type = "COILS" THEN CoilOutputValue(register_value) ELSE register_value

\* what the field device stores for a value it accepted
DeviceStores(reg_type, output_value) ==
  IF reg_type = "COILS"
  THEN (IF output_value = "0xFF00" THEN "True" ELSE "False")
  ELSE output_value

\* variant: a walk that does not start over with the next class
PositionsAheadOneCursor(batch, idx, cursor) ==
  {p \in (idx..Len(WriteRegTypes)) \X Addresses :
     /\ WriteRegTypes[p[1]] \in DOMAIN batch
     /\ p[2] \in DOMAIN batch[WriteRegTypes[p[1]]]
     /\ p[2] > cursor}

\* a dict is walked in slot order: the next key is the smallest one above
\* the position reached, so a key that arrives during the walk is met only
\* if its slot is still ahead.  Positions of write_all_registers over the
\* batch: (index into WriteRegTypes, key), after (idx, cursor).
PositionsAhead(batch, idx, cursor) ==
  {p \in (idx..Len(WriteRegTypes)) \X Addresses :
     /\ WriteRegTypes[p[1]] \in DOMAIN batch
     /\ p[2] \in DOMAIN batch[WriteRegTypes[p[1]]]
     /\ p[1] = idx => p[2] > cursor}

NextPosition(batch, idx, cursor) ==
  CHOOSE p \in PositionsAhead(batch, idx, cursor) :
    \A q \in PositionsAhead(batch, idx, cursor) :
      p[1] < q[1] \/ (p[1] = q[1] /\ p[2] <= q[2])

\* successfull_registers[key] = val  /  failed_registers[key] = val, and
\* the class entry write_all_registers makes for a non-empty result
Record(result, reg_type, key, val) ==
  Put(result, reg_type,
      Put(IF reg_type \in DOMAIN result THEN result[reg_type] ELSE EmptyDict,
          key, val))

(***************************************************************************)
(* Provisioner worker: _provision_host_data                                *)
(***************************************************************************)
\* `while lock.locked():`
ProvisionerContinues(locked) == locked

\* variant: a sync that is due as soon as the interval has gone by
SyncDueAtInterval(since_update) == since_update >= sync_interval

\* `if time.time() > (last_update + interval):`
SyncDue(since_update) == since_update > sync_interval

\* variant: a sync that pulls first
FirstPhasePull == "pull"

\* the phase _provision_host_data runs first when a sync is due
FirstPhase == "push"

\* variant: a sync that pulls only after a push without failures
AfterPushOnlyClean(failed) == IF failed = EmptyDict THEN "pull" ELSE "loop"

\* where _provision_host_data goes after _update_client_data, whatever the
\* writes returned
AfterPush(failed) == "pull"

\* `if any(reg for reg in _changed_registers):` - the class names are the
\* items, and a class name is never empty
AnyChanged(ledger) == DOMAIN ledger # {}

\* variant: a removal by the timestamp now in the ledger
RemovalTimestampOfLedger(data, ledger_entry) == ledger_entry.time

\* timestamp handed to _remove_changed_register: the one of the entry that
\* was written, not the one now in the ledger
RemovalTimestamp(data, ledger_entry) == data.time

\* variant: the sync check is made again right after a cycle
EndCycleRechecks(th) ==
  [IdleProvisioner EXCEPT
     !.pc = "gate",
     !.since_update = th.since_update,
     !.syncs = th.syncs,
     !.retried = {<<at[1], at[2], at[3]>> : at \in {x \in th.attempted :
                                                     ~OperationStatus(x[4])}}]

\* the locals of a sync cycle are gone when it is over, and the loop goes
\* back to its test
EndCycle(th) ==
  [IdleProvisioner EXCEPT
     !.since_update = th.since_update,
     !.syncs = th.syncs,
     !.retried = {<<at[1], at[2], at[3]>> : at \in {x \in th.attempted :
                                                     ~OperationStatus(x[4])}}]

\* _update_client_data up to the first write of write_all_registers
BeginPush(th) ==
  IF AnyChanged(changed_registers)
  THEN [th EXCEPT !.pc = "write", !.cursor = 0, !.idx = 1,
                  !.cycle_keys = LedgerKeys(changed_registers)]
  ELSE [th EXCEPT !.pc = AfterPush(EmptyDict)]

ProvisionUnchanged ==
  UNCHANGED <<bridge, register_definitions, collect_lock, provision_lock, cthreads,
              client_data_msg, last_call, write_result, led, wifi>>

\* loop test and self.client.process() with no write request pending
ProvisionLoop(th) ==
  /\ th.pc = "loop"
  /\ pthreads' = IF ProvisionerContinues(provision_lock)
                 THEN Step(pthreads, th,
                           [th EXCEPT !.pc = "gate", !.syncs = 0])
                 ELSE Exit(pthreads, th)
  /\ UNCHANGED <<client_data, changed_registers, ticks_ms, image, device,
                 req_writes>>
  /\ ProvisionUnchanged

\* loop test and self.client.process() serving a write request of the host
ProvisionProcessWrite(th, reg_type, address, value) ==
  /\ th.pc = "loop"
  /\ ProvisionerContinues(provision_lock)
  /\ HostWriteEffect(reg_type, address, value)
  /\ pthreads' = Step(pthreads, th, [th EXCEPT !.pc = "gate", !.syncs = 0])
  /\ UNCHANGED <<client_data, device, req_writes>>
  /\ ProvisionUnchanged

\* the sync check; a due sync sets last_update and starts the first phase
ProvisionGate(th) ==
  /\ th.pc = "gate"
  /\ pthreads' = Step(pthreads, th,
       IF SyncDue(th.since_update)
       THEN IF FirstPhase = "push"
            THEN BeginPush([th EXCEPT !.since_update = 0, !.syncs = @ + 1])
            ELSE [th EXCEPT !.since_update = 0, !.syncs = @ + 1,
                            !.pc = FirstPhase,
                            !.cycle_keys = LedgerKeys(changed_registers)]
       ELSE [th EXCEPT !.pc = "loop"])
  /\ UNCHANGED <<client_data, changed_registers, ticks_ms, image, device,
                 req_writes>>
  /\ ProvisionUnchanged

\* one iteration of the loop of write_coil_registers / write_hregs_registers
\* over the ledger itself: one requester write
ProvisionWrite(th, outcome) ==
  LET pos == NextPosition(changed_registers, th.idx, th.cursor)
      reg_type == WriteRegTypes[pos[1]]
      key == pos[2]
      val == changed_registers[reg_type][key]
  IN
  /\ th.pc = "write"
  /\ PositionsAhead(changed_registers, th.idx, th.cursor) # {}
  /\ pthreads' =
       IF outcome = "raise" /\ ~WriteCaught(outcome)
       THEN Exit(pthreads, th)
       ELSE Step(pthreads, th,
       [th EXCEPT !.idx = pos[1], !.cursor = key,
                  !.attempted = th.attempted \cup
                                  {<<reg_type, key, val.time, outcome>>},
                  !.successful = IF OperationStatus(outcome)
                                 THEN Record(th.successful, reg_type, key, val)
                                 ELSE th.successful,
                  !.failed = IF OperationStatus(outcome)
                             THEN th.failed
                             ELSE Record(th.failed, reg_type, key, val)])
  /\ req_writes' = req_writes \cup {<<reg_type, key>>}
  /\ device' = IF outcome = "ok"
               THEN [device EXCEPT ![reg_type][key] =
                       DeviceStores(reg_type, OutputValue(reg_type, val.val))]
               ELSE device
  /\ UNCHANGED <<client_data, changed_registers, ticks_ms, image>>
  /\ ProvisionUnchanged

\* write_all_registers returns: the ledger has no further entry
ProvisionWritten(th) ==
  /\ th.pc = "write"
  /\ PositionsAhead(changed_registers, th.idx, th.cursor) = {}
  /\ pthreads' = Step(pthreads, th,
       [th EXCEPT !.pc = IF LedgerKeys(th.successful) = {}
                         THEN AfterPush(th.failed) ELSE "remove",
                  !.to_remove = LedgerKeys(th.successful)])
  /\ UNCHANGED <<client_data, changed_registers, ticks_ms, image, device,
                 req_writes>>
  /\ ProvisionUnchanged

\* first entry of successfull_registers not yet handed to the responder
NextRemoval(to_remove) ==
  CHOOSE ck \in to_remove : \A other \in to_remove :
    \/ ck[1] = other[1] /\ ck[2] <= other[2]
    \/ ck[1] = "COILS" /\ other[1] # "COILS"

\* one iteration of the removal loop of _update_client_data
ProvisionRemove(th) ==
  LET ck == NextRemoval(th.to_remove)
      data == th.successful[ck[1]][ck[2]]
      entry == IF ck[2] \in DOMAIN changed_registers[ck[1]]
               THEN changed_registers[ck[1]][ck[2]] ELSE data
  IN
  /\ th.pc = "remove"
  /\ pthreads' = Step(pthreads, th,
       [th EXCEPT !.to_remove = th.to_remove \ {ck},
                  !.pc = IF th.to_remove = {ck}
                         THEN AfterPush(th.failed) ELSE "remove"])
  /\ changed_registers' =
       remove_changed_register(changed_registers, ck[1], ck[2],
                               RemovalTimestamp(data, entry))
  /\ UNCHANGED <<client_data, ticks_ms, image, device, req_writes>>
  /\ ProvisionUnchanged

\* variant: a property that returns msg.value() as it is
client_data_latest(msg_value, kept) == msg_value

\* variant: a property that keeps the first snapshot it got
client_data_first(msg_value, kept) ==
  IF kept # EmptyDict THEN kept ELSE msg_value

\* variant: a property that merges msg.value() into what it kept
client_data_merged(msg_value, kept) ==
  [r \in DOMAIN kept \cup DOMAIN msg_value |->
     IF r \notin DOMAIN msg_value THEN kept[r]
     ELSE IF r \notin DOMAIN kept THEN msg_value[r]
     ELSE [k \in DOMAIN kept[r] \cup DOMAIN msg_value[r] |->
             IF k \in DOMAIN msg_value[r] THEN msg_value[r][k]
             ELSE kept[r][k]]]

\* the client_data property: msg.value(), kept only if it is not empty
client_data_get(msg_value, kept) ==
  IF msg_value # EmptyDict THEN msg_value ELSE kept

\* variant: a pull that sets only the classes a host cannot write
PullKeysInputs(snapshot) ==
  {ck \in {"ISTS", "IREGS"}
            \X UNION {DOMAIN snapshot[r] : r \in DOMAIN snapshot} :
     /\ ck[1] \in DOMAIN snapshot
     /\ ck[2] \in DOMAIN snapshot[ck[1]]
     /\ "val" \in DOMAIN snapshot[ck[1]][ck[2]]}

\* (class, key) pairs _update_host_data has a setter call for
PullKeys(snapshot) ==
  {ck \in AllRegTypes \X UNION {DOMAIN snapshot[r] : r \in DOMAIN snapshot} :
     /\ ck[1] \in DOMAIN snapshot
     /\ ck[2] \in DOMAIN snapshot[ck[1]]
     /\ "val" \in DOMAIN snapshot[ck[1]][ck[2]]}

RegTypeIndex(reg_type) == CHOOSE i \in 1..Len(RegTypes) : RegTypes[i] = reg_type

\* next pair in the order of `for reg_type in ['COILS', 'HREGS', 'ISTS',
\* 'IREGS']`
NextPull(pull) ==
  CHOOSE ck \in pull :
    \A other \in pull : RegTypeIndex(ck[1]) <= RegTypeIndex(other[1])

\* _update_host_data up to its first setter call
ProvisionPull(th) ==
  LET data == client_data_get(client_data_msg, client_data) IN
  /\ th.pc = "pull"
  /\ client_data' = data
  /\ pthreads' = Step(pthreads, th,
       IF PullKeys(data) = {}
       THEN EndCycle(th)
       ELSE [th EXCEPT !.pc = "set", !.snapshot = data, !.pull = PullKeys(data)])
  /\ UNCHANGED <<changed_registers, ticks_ms, image, device, req_writes>>
  /\ ProvisionUnchanged

\* variant: a pull that leaves an address alone whose image differs from
\* the snapshot
PulledValueSparing(val, held) == held

\* `value = val['val']`: what is handed to the setter, whatever the image
\* holds at the address
PulledValue(val, held) == val.val

\* one setter call of _update_host_data; after the last one the cycle is over
ProvisionSet(th) ==
  LET ck == NextPull(th.pull)
      val == th.snapshot[ck[1]][ck[2]]
  IN
  /\ th.pc = "set"
  /\ pthreads' = Step(pthreads, th,
       IF th.pull = {ck} THEN EndCycle(th)
       ELSE [th EXCEPT !.pull = th.pull \ {ck}])
  /\ image' = set_register(image, ck[1], val.register,
                           PulledValue(val, image[ck[1]][val.register]))
  /\ UNCHANGED <<client_data, changed_registers, ticks_ms, device, req_writes>>
  /\ ProvisionUnchanged

\* the provisioner thread with a host that only reads
ProvisionerQuiet(th) ==
  \/ ProvisionLoop(th)
  \/ ProvisionGate(th)
  \/ ProvisionWritten(th)
  \/ ProvisionPull(th)
  \/ ProvisionSet(th)

Provisioner(th) ==
  \/ ProvisionerQuiet(th)
  \/ \E w \in HostWrites : ProvisionProcessWrite(th, w[1], w[2], w[3])
  \/ \E outcome \in WriteOutcomes : ProvisionWrite(th, outcome)
  \/ ProvisionRemove(th)

\* the requester write of the ledger entry at (class, address) goes through
ProvisionWriteOk(reg_type, address) ==
  \E th \in BagToSet(pthreads) :
    /\ ProvisionWrite(th, "ok")
    /\ <<reg_type, address>> \in req_writes'
    /\ \E at \in BagToSet(pthreads') :
         <<reg_type, address>> \in LedgerKeys(at.successful) \ LedgerKeys(th.successful)

(***************************************************************************)
(* write_all_registers called from outside the workers                     *)
(***************************************************************************)
\* (class, key) pairs of a batch that write_all_registers hands to a writer
WrittenKeys(batch) ==
  {ck \in UNION {{<<r, a>> : a \in DOMAIN batch[r]} : r \in DOMAIN batch} :
     \E i \in 1..Len(WriteRegTypes) : WriteRegTypes[i] = ck[1]}

\* write_coil_registers / write_hregs_registers: the loop over the entries
\* of one class, `todo` being the keys not yet written; gives the pair of
\* dicts the writer returns
RECURSIVE WriteRegisters(_, _, _, _, _)
WriteRegisters(reg_type, modbus_registers, todo, outcomes, result) ==
  IF todo = {} THEN result
  ELSE LET key == CHOOSE k \in todo : \A o \in todo : k <= o
           val == modbus_registers[key]
       IN  WriteRegisters(reg_type, modbus_registers, todo \ {key}, outcomes,
             IF OperationStatus(outcomes[<<reg_type, key>>])
             THEN [result EXCEPT !.successful = Put(@, key, val)]
             ELSE [result EXCEPT !.failed = Put(@, key, val)])

\* write_all_registers: the writers of the classes it knows, one after the
\* other, each dict of a class kept only when it is not empty
RECURSIVE WriteClasses(_, _, _, _)
WriteClasses(i, batch, outcomes, result) ==
  IF i > Len(WriteRegTypes) THEN result
  ELSE LET reg_type == WriteRegTypes[i]
           written ==
             WriteRegisters(reg_type, batch[reg_type], DOMAIN batch[reg_type],
                            outcomes,
                            [failed |-> EmptyDict, successful |-> EmptyDict])
       IN  WriteClasses(i + 1, batch, outcomes,
             IF reg_type \notin DOMAIN batch THEN result
             ELSE [failed |->
                     IF written.failed # EmptyDict
                     THEN Put(result.failed, reg_type, written.failed)
                     ELSE result.failed,
                   successful |->
                     IF written.successful # EmptyDict
                     THEN Put(result.successful, reg_type, written.successful)
                     ELSE result.successful])

\* the failed (ok = FALSE) or successful (ok = TRUE) dict the call returns
\* when the write of each key ends as `outcomes` says
WriteResult(batch, outcomes, ok) ==
  LET result == WriteClasses(1, batch, outcomes,
                             [failed |-> EmptyDict, successful |-> EmptyDict])
  IN  IF ok THEN result.successful ELSE result.failed

\* what the device holds after the writes that went through
DeviceAfter(dev, batch, outcomes) ==
  [r \in DOMAIN dev |-> [a \in DOMAIN dev[r] |->
     IF <<r, a>> \in WrittenKeys(batch) /\ outcomes[<<r, a>>] = "ok"
     THEN DeviceStores(r, OutputValue(r, batch[r][a].val))
     ELSE dev[r][a]]]

\* position of a class among the classes write_all_registers hands on
WritePosition(reg_type) ==
  CHOOSE i \in 1..Len(WriteRegTypes) : WriteRegTypes[i] = reg_type

\* entries at which `register_value = val['val']` raises KeyError
WithoutVal(batch) ==
  {ck \in WrittenKeys(batch) : "val" \notin DOMAIN batch[ck[1]][ck[2]]}

\* entries the writers get to, in the order of the classes and of the keys
\* of a class: those ahead of the first entry without a val
Reached(batch) ==
  {ck \in WrittenKeys(batch) :
     \A bad \in WithoutVal(batch) :
       \/ WritePosition(ck[1]) < WritePosition(bad[1])
       \/ ck[1] = bad[1] /\ ck[2] < bad[2]}

\* the part of a batch the writers get to
UpTo(batch) ==
  [r \in {ck[1] : ck \in Reached(batch)} |->
     [a \in {ck[2] : ck \in {x \in Reached(batch) : x[1] = r}} |->
        batch[r][a]]]

\* write_all_registers(); an entry without a val ends the call by a
\* KeyError, with nothing returned, after the writes of the entries ahead
\* of it.  raised is a history field of the call
write_all_registers(batch, outcomes) ==
  /\ IF WithoutVal(batch) = {}
     THEN /\ write_result' =
               [batch |-> batch, outcomes |-> outcomes, raised |-> FALSE,
                failed |-> WriteResult(batch, outcomes, FALSE),
                successful |-> WriteResult(batch, outcomes, TRUE)]
          /\ req_writes' = req_writes \cup WrittenKeys(batch)
          /\ device' = DeviceAfter(device, batch, outcomes)
     ELSE /\ write_result' =
               [batch |-> batch, outcomes |-> outcomes, raised |-> TRUE,
                failed |-> EmptyDict, successful |-> EmptyDict]
          /\ req_writes' = req_writes \cup Reached(batch)
          /\ device' = DeviceAfter(device, UpTo(batch), outcomes)
  /\ UNCHANGED <<bridge, register_definitions, collect_lock, provision_lock, cthreads,
                 pthreads, client_data_msg, client_data, changed_registers,
                 ticks_ms, image, last_call, led, wifi>>

\* batches for the call: the read-only classes and any of the writable
\* ones, each with one entry per address
Batches ==
  {[r \in S \cup {"ISTS", "IREGS"} |->
      [a \in Addresses |-> [val |-> DefaultValue(r), time |-> 0]]] :
     S \in SUBSET {"COILS", "HREGS"}}

\* addresses of the entries of the batches below
BatchAddresses == {1, 2}

\* batches for the call with up to two entries per writable class: a class
\* is absent, or holds any set of the addresses (the empty one too)
WriteBatches ==
  UNION {{[r \in S |-> [a \in keys[r] |-> [val |-> DefaultValue(r), time |-> 0]]] :
            keys \in [S -> SUBSET BatchAddresses]} :
           S \in SUBSET {"COILS", "HREGS"}}

(***************************************************************************)
(* Environment                                                             *)
(***************************************************************************)
RECURSIVE Copies(_, _)
Copies(S, bag) ==
  IF S = {} THEN 0
  ELSE LET x == CHOOSE y \in S : TRUE IN bag[x] + Copies(S \ {x}, bag)

\* time.sleep() of a collector moves on by one step of the clock
SleepOn(th) ==
  IF th.pc = "sleep"
  THEN [th EXCEPT !.slept = Min(@ + TickSeconds, collect_interval)] ELSE th

\* time.time() - last_update of a provisioner moves on by one step of the
\* clock; past sync_interval its amount no longer matters
WaitOn(th) ==
  [th EXCEPT !.since_update = Min(@ + TickSeconds, sync_interval + 1)]

SleepAll(bag) ==
  [n \in {SleepOn(th) : th \in BagToSet(bag)} |->
     Copies({th \in BagToSet(bag) : SleepOn(th) = n}, bag)]

WaitAll(bag) ==
  [n \in {WaitOn(th) : th \in BagToSet(bag)} |->
     Copies({th \in BagToSet(bag) : WaitOn(th) = n}, bag)]

\* time passes
Tick ==
  /\ cthreads' = SleepAll(cthreads)
  /\ pthreads' = WaitAll(pthreads)
  /\ <<cthreads', pthreads'>> # <<cthreads, pthreads>>
  /\ UNCHANGED <<bridge, register_definitions, collect_lock, provision_lock,
                 client_data_msg, client_data, changed_registers, ticks_ms,
                 image, device, last_call, req_writes, write_result, led, wifi>>

\* the responder handles a host write while the provisioner is elsewhere
HostWrite(reg_type, address, value) ==
  /\ HostWriteEffect(reg_type, address, value)
  /\ UNCHANGED <<bridge, register_definitions, collect_lock, provision_lock, cthreads,
                 pthreads, client_data_msg, client_data, device, last_call,
                 req_writes, write_result, led, wifi>>

\* the field device changes one of its registers
DeviceChange(reg_type, address, value) ==
  /\ device[reg_type][address] # value
  /\ device' = [device EXCEPT ![reg_type][address] = value]
  /\ UNCHANGED <<bridge, register_definitions, collect_lock, provision_lock, cthreads,
                 pthreads, client_data_msg, client_data, changed_registers,
                 ticks_ms, image, last_call, req_writes, write_result, led, wifi>>

DeviceChanges ==
  {w \in AllRegTypes \X Addresses \X (BitValues \cup RegValues) :
     w[1] \in DOMAIN register_definitions /\ w[3] \in ValuesOf(w[1])}

(***************************************************************************)
(* Specifications                                                          *)
(***************************************************************************)
\* start/stop controls and both workers, with a quiet host and device
InitLife == InitWith(SmallFile)

NextLife ==
  \/ \E value \in BOOLEAN : collecting_client_data_set(value)
  \/ \E value \in BOOLEAN : provisioning_host_data_set(value)
  \/ \E th \in BagToSet(cthreads) : Collector(th, {"ok"}, {0})
  \/ \E th \in BagToSet(pthreads) : ProvisionerQuiet(th)
  \/ Tick

SpecLife == InitLife /\ [][NextLife]_vars

\* one provisioner, with host writes arriving at any moment
InitSync == InitWith(WritableFile)

NextSync ==
  \/ provisioning_host_data_set(TRUE)
  \/ \E th \in BagToSet(pthreads) : Provisioner(th)
  \/ \E w \in HostWrites : HostWrite(w[1], w[2], w[3])
  \/ Tick

SpecSync == InitSync /\ [][NextSync]_vars

\* the same, where the clock keeps going, the provisioner is started and
\* its thread is scheduled again and again
FairSync ==
  /\ SpecSync
  /\ WF_vars(Tick)
  /\ WF_vars(provisioning_host_data_set(TRUE))
  /\ WF_vars(\E th \in BagToSet(pthreads) : Provisioner(th))

\* one provisioner over a file of holding registers, with host writes
\* arriving at any moment
InitRetry == InitWith(SmallFile)

NextRetry ==
  \/ provisioning_host_data_set(TRUE)
  \/ \E th \in BagToSet(pthreads) : Provisioner(th)
  \/ \E w \in HostWrites : HostWrite(w[1], w[2], w[3])
  \/ Tick

SpecRetry == InitRetry /\ [][NextRetry]_vars

\* the same, where the clock keeps going, the provisioner is started and
\* scheduled again and again, and the write of an entry that is tried again
\* and again goes through in the end
FairRetry ==
  /\ SpecRetry
  /\ WF_vars(Tick)
  /\ WF_vars(provisioning_host_data_set(TRUE))
  /\ WF_vars(\E th \in BagToSet(pthreads) : Provisioner(th))
  /\ \A ck \in ChangeableRegTypes \X Addresses :
       SF_vars(ProvisionWriteOk(ck[1], ck[2]))

\* one provisioner over a file of holding registers, with host writes
\* arriving at any moment, and calls of write_all_registers from outside
\* the workers whose writes go through or return a false status
InitWrite == InitWith(SmallFile)

NextWrite ==
  \/ provisioning_host_data_set(TRUE)
  \/ \E th \in BagToSet(pthreads) : Provisioner(th)
  \/ \E w \in HostWrites : HostWrite(w[1], w[2], w[3])
  \/ Tick
  \/ \E batch \in Batches :
       \E outcomes \in [WrittenKeys(batch) -> {"ok", "false"}] :
         write_all_registers(batch, outcomes)

SpecWrite == InitWrite /\ [][NextWrite]_vars

\* calls of write_all_registers alone, on batches of up to two entries per
\* class, against a device that has these registers
InitBatch ==
  /\ register_definitions = WritableFile
  /\ collect_lock = FALSE
  /\ provision_lock = FALSE
  /\ cthreads = EmptyBag
  /\ pthreads = EmptyBag
  /\ client_data_msg = EmptyDict
  /\ client_data = EmptyDict
  /\ changed_registers = [r \in ChangeableRegTypes |-> EmptyDict]
  /\ ticks_ms = 0
  /\ image = [r \in AllRegTypes |-> [a \in BatchAddresses |-> DefaultValue(r)]]
  /\ device = [r \in AllRegTypes |-> [a \in BatchAddresses |-> DefaultValue(r)]]
  /\ last_call = [op |-> "none", locked |-> FALSE, raised |-> FALSE,
                  seq |-> 0, fresh |-> TRUE]
  /\ req_writes = {}
  /\ led = LedHelper(1, DefaultColor)
  /\ wifi = WifiIdle
  /\ write_result = [batch |-> EmptyDict, outcomes |-> EmptyDict,
                     raised |-> FALSE,
                     failed |-> EmptyDict, successful |-> EmptyDict]
  /\ bridge = ModbusBridge(FileOf(register_definitions))

NextBatch ==
  \E batch \in WriteBatches :
    \E outcomes \in [WrittenKeys(batch) -> WriteOutcomes] :
      write_all_registers(batch, outcomes)

SpecBatch == InitBatch /\ [][NextBatch]_vars

\* batches of two entries per class, where an entry may come without a val
PushBatches ==
  UNION {{[r \in S |-> [a \in BatchAddresses |->
                          IF a \in bare[r] THEN [time |-> 0]
                          ELSE [val |-> DefaultValue(r), time |-> 0]]] :
            bare \in [S -> SUBSET BatchAddresses]} :
           S \in SUBSET {"COILS", "HREGS"}}

\* calls of write_all_registers alone, on such batches
NextPush ==
  \E batch \in PushBatches :
    \E outcomes \in [Reached(batch) -> WriteOutcomes] :
      write_all_registers(batch, outcomes)

SpecPush == InitBatch /\ [][NextPush]_vars

\* one collector over any of the files for the read-all pass, where each
\* requester read may raise
InitRead ==
  /\ register_definitions \in ReadFiles
  /\ collect_lock = FALSE
  /\ provision_lock = FALSE
  /\ cthreads = EmptyBag
  /\ pthreads = EmptyBag
  /\ client_data_msg = EmptyDict
  /\ client_data = EmptyDict
  /\ changed_registers = [r \in ChangeableRegTypes |-> EmptyDict]
  /\ ticks_ms = 0
  /\ image = [r \in AllRegTypes |-> [a \in ReadAddresses |-> DefaultValue(r)]]
  /\ device = [r \in AllRegTypes |-> [a \in ReadAddresses |-> DeviceHolds(r, a)]]
  /\ last_call = [op |-> "none", locked |-> FALSE, raised |-> FALSE,
                  seq |-> 0, fresh |-> TRUE]
  /\ req_writes = {}
  /\ led = LedHelper(1, DefaultColor)
  /\ wifi = WifiIdle
  /\ write_result = [batch |-> EmptyDict, outcomes |-> EmptyDict,
                     raised |-> FALSE,
                     failed |-> EmptyDict, successful |-> EmptyDict]
  /\ bridge = ModbusBridge(FileOf(register_definitions))

NextRead ==
  \/ collecting_client_data_set(TRUE)
  \/ \E th \in BagToSet(cthreads) : Collector(th, ReadOutcomes, {0})
  \/ Tick

SpecRead == InitRead /\ [][NextRead]_vars

\* the same, where the clock keeps going and the collector thread is
\* scheduled again and again
FairRead ==
  /\ SpecRead
  /\ WF_vars(Tick)
  /\ WF_vars(\E th \in BagToSet(cthreads) : Collector(th, ReadOutcomes, {0}))

\* construction on any of the files, and the start calls after it
InitConfig ==
  /\ bridge \in {FreshBridge(file) : file \in ConfigFiles}
  /\ register_definitions = EmptyDict
  /\ collect_lock = FALSE
  /\ provision_lock = FALSE
  /\ cthreads = EmptyBag
  /\ pthreads = EmptyBag
  /\ client_data_msg = EmptyDict
  /\ client_data = EmptyDict
  /\ changed_registers = [r \in ChangeableRegTypes |-> EmptyDict]
  /\ ticks_ms = 0
  /\ image = [r \in AllRegTypes |-> [a \in Addresses |-> DefaultValue(r)]]
  /\ device = [r \in AllRegTypes |-> [a \in Addresses |-> DefaultValue(r)]]
  /\ last_call = [op |-> "none", locked |-> FALSE, raised |-> FALSE,
                  seq |-> 0, fresh |-> TRUE]
  /\ req_writes = {}
  /\ led = LedHelper(1, DefaultColor)
  /\ wifi = WifiIdle
  /\ write_result = [batch |-> EmptyDict, outcomes |-> EmptyDict,
                     raised |-> FALSE,
                     failed |-> EmptyDict, successful |-> EmptyDict]

NextConfig ==
  \/ Construct
  \/ StartCollecting
  \/ StartProvisioning

SpecConfig == InitConfig /\ [][NextConfig]_vars

\* construction on a file with a valid CONNECTION block or none, settings
\* given from outside, and setup_connection in any state of the network
InitSetup ==
  /\ bridge \in {FreshBridge(file) : file \in SetupFiles}
  /\ register_definitions = EmptyDict
  /\ collect_lock = FALSE
  /\ provision_lock = FALSE
  /\ cthreads = EmptyBag
  /\ pthreads = EmptyBag
  /\ client_data_msg = EmptyDict
  /\ client_data = EmptyDict
  /\ changed_registers = [r \in ChangeableRegTypes |-> EmptyDict]
  /\ ticks_ms = 0
  /\ image = [r \in AllRegTypes |-> [a \in Addresses |-> DefaultValue(r)]]
  /\ device = [r \in AllRegTypes |-> [a \in Addresses |-> DefaultValue(r)]]
  /\ last_call = [op |-> "none", locked |-> FALSE, raised |-> FALSE,
                  seq |-> 0, fresh |-> TRUE]
  /\ req_writes = {}
  /\ led = LedHelper(1, DefaultColor)
  /\ wifi = WifiIdle
  /\ write_result = [batch |-> EmptyDict, outcomes |-> EmptyDict,
                     raised |-> FALSE,
                     failed |-> EmptyDict, successful |-> EmptyDict]

NextSetup ==
  \/ Construct
  \/ \E settings \in {"host", "client"} : \E val \in ValidBlocks :
       SetSettings(settings, val)
  \/ \E station \in Stations : \E accesspoint \in BOOLEAN :
       \E bound \in BoundOutcomes :
         setup_connection([station |-> station, accesspoint |-> accesspoint,
                           bound |-> bound])

SpecSetup == InitSetup /\ [][NextSetup]_vars

\* an error that no except clause of the loop catches, raised somewhere in
\* the loop body, ends the thread function; nothing releases the lock
CollectorRaises(th) ==
  /\ th.pc \in {"read", "publish", "sleep"}
  /\ cthreads' = Exit(cthreads, th)
  /\ UNCHANGED client_data_msg
  /\ CollectUnchanged

\* the same for the provisioner, self.client.process() of the loop step
\* included
ProvisionerRaises(th) ==
  /\ th.pc # "loop" \/ ProvisionerContinues(provision_lock)
  /\ pthreads' = Exit(pthreads, th)
  /\ UNCHANGED <<client_data, changed_registers, ticks_ms, image, device,
                 req_writes>>
  /\ ProvisionUnchanged

\* start/stop controls and both workers, where a worker can die of an
\* error raised in its loop
InitCrash == InitWith(SmallFile)

NextCrash ==
  \/ \E value \in BOOLEAN : collecting_client_data_set(value)
  \/ \E value \in BOOLEAN : provisioning_host_data_set(value)
  \/ \E th \in BagToSet(cthreads) : Collector(th, {"ok"}, {0})
  \/ \E th \in BagToSet(pthreads) : ProvisionerQuiet(th)
  \/ \E th \in BagToSet(cthreads) : CollectorRaises(th)
  \/ \E th \in BagToSet(pthreads) : ProvisionerRaises(th)
  \/ Tick

SpecCrash == InitCrash /\ [][NextCrash]_vars

\* both workers, started and never stopped, with every requester call going
\* through, next to a device whose holding register changes on its own and
\* a host that writes a few times
InitConverge == InitWith(SmallFile)

NextConverge ==
  \/ collecting_client_data_set(TRUE)
  \/ provisioning_host_data_set(TRUE)
  \/ \E th \in BagToSet(cthreads) : Collector(th, {"ok"}, {0})
  \/ \E th \in BagToSet(pthreads) :
       \/ ProvisionerQuiet(th)
       \/ \E w \in HostWrites : ProvisionProcessWrite(th, w[1], w[2], w[3])
       \/ ProvisionWrite(th, "ok")
       \/ ProvisionRemove(th)
  \/ \E value \in RegValues : DeviceChange("HREGS", 1, value)
  \/ Tick

SpecConverge == InitConverge /\ [][NextConverge]_vars

\* the same, where the clock keeps going, both workers are started and
\* their threads are scheduled again and again
FairConverge ==
  /\ SpecConverge
  /\ WF_vars(Tick)
  /\ WF_vars(collecting_client_data_set(TRUE))
  /\ WF_vars(provisioning_host_data_set(TRUE))
  /\ WF_vars(\E th \in BagToSet(cthreads) : Collector(th, {"ok"}, {0}))
  /\ WF_vars(\E th \in BagToSet(pthreads) :
               \/ ProvisionerQuiet(th)
               \/ ProvisionWrite(th, "ok")
               \/ ProvisionRemove(th))

\* a collector and a provisioner, with host writes arriving at any moment
InitOrder == InitWith(SmallFile)

NextOrder ==
  \/ collecting_client_data_set(TRUE)
  \/ provisioning_host_data_set(TRUE)
  \/ \E th \in BagToSet(cthreads) : Collector(th, {"ok"}, {0})
  \/ \E th \in BagToSet(pthreads) : Provisioner(th)
  \/ \E w \in HostWrites : HostWrite(w[1], w[2], w[3])
  \/ Tick

SpecOrder == InitOrder /\ [][NextOrder]_vars

\* collector and provisioner next to a device whose holding register changes
InitSnap == InitWith(MixedFile)

NextSnap ==
  \/ collecting_client_data_set(TRUE)
  \/ provisioning_host_data_set(TRUE)
  \/ \E th \in BagToSet(cthreads) : Collector(th, ReadOutcomes, {0, 1})
  \/ \E th \in BagToSet(pthreads) : ProvisionerQuiet(th)
  \/ \E value \in RegValues : DeviceChange("HREGS", 1, value)
  \/ Tick

SpecSnap == InitSnap /\ [][NextSnap]_vars

\* the collector alone, started and stopped at any moment
InitStop == InitWith(SmallFile)

NextStop ==
  \/ \E value \in BOOLEAN : collecting_client_data_set(value)
  \/ \E th \in BagToSet(cthreads) : Collector(th, {"ok"}, {0})
  \/ Tick

SpecStop == InitStop /\ [][NextStop]_vars

\* the same, where the clock keeps going and the collector threads are
\* scheduled again and again
FairStop ==
  /\ SpecStop
  /\ WF_vars(Tick)
  /\ WF_vars(\E th \in BagToSet(cthreads) : Collector(th, {"ok"}, {0}))

(***************************************************************************)
(* Properties                                                              *)
(***************************************************************************)
Provisioners == BagToSet(pthreads)
Collectors == BagToSet(cthreads)

\* (class, key) pairs a sync cycle made a requester write for
AttemptedKeys(th) == {<<at[1], at[2]>> : at \in th.attempted}

\* the timestamps host writes get: no two writes have the same
Stamps == 1..MaxWrites

\* C1: an entry leaves the ledger only through the removal of a sync cycle
\* whose write of exactly that entry (same value, same timestamp) went
\* through; when the host has rewritten the address during the cycle the newer
\* entry is still in the ledger after the removals, and a later cycle makes a
\* requester write for it.
C1_CompareAndDelete ==
  /\ [][\A ck \in LedgerKeys(changed_registers) :
          ck \notin LedgerKeys(changed_registers') =>
            \E th \in Provisioners :
              /\ th.pc = "remove"
              /\ ck \in LedgerKeys(th.successful)
              /\ th.successful[ck[1]][ck[2]] = changed_registers[ck[1]][ck[2]]]_vars
  /\ [](\A th \in Provisioners :
          th.pc \in {"pull", "set"} =>
            \A ck \in LedgerKeys(th.successful) \cap LedgerKeys(changed_registers) :
              changed_registers[ck[1]][ck[2]].time > th.successful[ck[1]][ck[2]].time)
  /\ \A ck \in ChangeableRegTypes \X Addresses :
       (\E th \in Provisioners :
          /\ th.pc = "pull"
          /\ ck \in LedgerKeys(th.successful) \cap LedgerKeys(changed_registers)
          /\ changed_registers[ck[1]][ck[2]].time > th.successful[ck[1]][ck[2]].time)
       ~> (\E th \in Provisioners : \E at \in th.attempted :
             /\ at[1] = ck[1] /\ at[2] = ck[2]
             /\ ck \in LedgerKeys(changed_registers) =>
                  at[3] = changed_registers[ck[1]][ck[2]].time)

\* a cycle wrote an entry, the host rewrote the address meanwhile, and after
\* the removals the newer entry is still in the ledger
C1_NewerEntrySurvives ==
  \E th \in Provisioners :
    /\ th.pc = "pull"
    /\ \E ck \in LedgerKeys(th.successful) \cap LedgerKeys(changed_registers) :
         changed_registers[ck[1]][ck[2]].time > th.successful[ck[1]][ck[2]].time

\* C2: an entry whose requester write returned failure or raised is in the
\* failed set of the cycle with its timestamp, is not in the successful set,
\* and is still in the ledger; and a provisioner ends only with its run flag
\* released, never because of a write.
C2_FailedWriteKept ==
  /\ [](\A th \in Provisioners : \A at \in th.attempted :
          at[4] # "ok" =>
            /\ <<at[1], at[2]>> \in LedgerKeys(th.failed)
            /\ th.failed[at[1]][at[2]].time = at[3]
            /\ <<at[1], at[2]>> \notin LedgerKeys(th.successful)
            /\ <<at[1], at[2]>> \notin th.to_remove
            /\ <<at[1], at[2]>> \in LedgerKeys(changed_registers)
            /\ changed_registers[at[1]][at[2]].time >= at[3])
  /\ [][LiveProvisioners' < LiveProvisioners => ~provision_lock]_vars

\* the writes of a cycle are over, one of them raised and one returned
\* failure
C2_WritesFailed ==
  \E th \in Provisioners :
    /\ th.pc = "pull"
    /\ \E at \in th.attempted : at[4] = "raise"
    /\ \E at \in th.attempted : at[4] = "false"
    /\ LedgerKeys(th.failed) \subseteq LedgerKeys(changed_registers)

\* C3: every entry in the ledger when a sync cycle starts gets a requester
\* write in that cycle, an entry that failed in the cycle before included,
\* however often it failed; and when the write of an entry goes through in the
\* end, the entry leaves the ledger.
C3_RetriedUntilRemoved ==
  /\ [](\A th \in Provisioners :
          th.pc \in {"remove", "pull", "set"} =>
            /\ th.cycle_keys \subseteq AttemptedKeys(th)
            /\ \A rt \in th.retried : <<rt[1], rt[2]>> \in AttemptedKeys(th))
  /\ \A ts \in Stamps :
       (\E ck \in LedgerKeys(changed_registers) :
          changed_registers[ck[1]][ck[2]].time = ts)
       ~> ~(\E ck \in LedgerKeys(changed_registers) :
              changed_registers[ck[1]][ck[2]].time = ts)

\* an entry that failed in the cycle before has failed again in this one
C3_FailedAgain ==
  \E th \in Provisioners :
    /\ th.pc = "pull"
    /\ \E at \in th.attempted :
         /\ at[4] # "ok"
         /\ <<at[1], at[2], at[3]>> \in th.retried

\* C4: no requester write is ever made for a discrete input or an input
\* register, and the failed and successful sets write_all_registers returns
\* have no ISTS or IREGS entries.
C4_NoReadOnlyWrites ==
  /\ \A w \in req_writes : w[1] \notin {"ISTS", "IREGS"}
  /\ DOMAIN write_result.failed \cap {"ISTS", "IREGS"} = {}
  /\ DOMAIN write_result.successful \cap {"ISTS", "IREGS"} = {}

\* write_all_registers was called with a batch holding entries of all four
\* classes
C4_ReadOnlyInBatch ==
  /\ \A r \in AllRegTypes :
       r \in DOMAIN write_result.batch /\ write_result.batch[r] # EmptyDict
  /\ LedgerKeys(write_result.successful) # {}
  /\ LedgerKeys(write_result.failed) # {}

\* a snapshot is empty, or has every class of the file and entries of one
\* read-all pass only
OnePass(snapshot) ==
  \/ snapshot = EmptyDict
  \/ /\ DOMAIN snapshot = DOMAIN register_definitions
     /\ \A r1 \in DOMAIN snapshot, r2 \in DOMAIN snapshot :
          \A k1 \in DOMAIN snapshot[r1], k2 \in DOMAIN snapshot[r2] :
            snapshot[r1][k1].pass = snapshot[r2][k2].pass

\* C5: whatever the interleaving of collector and provisioner, the value in
\* the snapshot cache, the value the client_data property keeps and returns,
\* and the snapshot a provisioner works on are each either empty or the
\* complete result of one single read-all pass.
C5_SnapshotAtomic ==
  /\ OnePass(client_data_msg)
  /\ OnePass(client_data)
  /\ \A th \in Provisioners : OnePass(th.snapshot)

\* a provisioner works on the complete snapshot of one pass while the
\* collector is in the middle of a later pass and the cache already holds
\* another snapshot
C5_PullDuringPass ==
  \E th \in Provisioners : \E co \in Collectors :
    /\ th.pc = "set"
    /\ \A r \in DOMAIN register_definitions :
         r \in DOMAIN th.snapshot /\ th.snapshot[r] # EmptyDict
    /\ client_data_msg # th.snapshot
    /\ co.pc = "read"
    /\ co.read_content # EmptyDict

\* C6: a sync cycle makes its first responder setter call only after it has
\* made a requester write for every ledger entry it met at its start: a
\* thread in the pull phase has written them all, and the register image is
\* set (other than by a host write) only by a thread in the pull phase.
C6_PushBeforePull ==
  /\ [](\A th \in Provisioners :
          th.pc \in {"pull", "set"} => th.cycle_keys \subseteq AttemptedKeys(th))
  /\ [][(image' # image /\ changed_registers' = changed_registers) =>
          \E th \in Provisioners :
            th.pc = "set" /\ th.cycle_keys \subseteq AttemptedKeys(th)]_vars

\* a cycle that met ledger entries is about to make its first setter call
C6_FirstSetAfterWrites ==
  \E th \in Provisioners :
    /\ th.pc = "set"
    /\ th.cycle_keys # {}
    /\ th.pull = PullKeys(th.snapshot)

\* C7: the provisioner leaves the push phase of a sync cycle only into the
\* pull phase of that cycle, whatever its writes returned, and a cycle in its
\* push phase does get to its pull phase.
C7_PullAfterPush ==
  /\ [][\A th \in Provisioners :
          th.pc \in {"write", "remove"} =>
            \E nx \in BagToSet(pthreads') : nx.pc \in {"write", "remove", "pull"}]_vars
  /\ (\E th \in Provisioners : th.pc \in {"write", "remove"})
       ~> (\E th \in Provisioners : th.pc = "pull")

\* the pull phase starts after a push phase in which every write failed,
\* one of them by raising
C7_PullAfterFailures ==
  \E th \in Provisioners :
    /\ th.pc = "pull"
    /\ th.successful = EmptyDict
    /\ LedgerKeys(th.failed) = ChangeableRegTypes \X Addresses
    /\ \E at \in th.attempted : at[4] = "raise"

\* C8: a start call made while the run flag is held starts no thread and
\* leaves the flag held; a held flag means at least one worker of that kind,
\* and, as long as no stop call was made, exactly one.
C8_StartIdempotent ==
  /\ [][(last_call'.seq # last_call.seq /\ last_call'.op = "start_collecting"
         /\ collect_lock) => (cthreads' = cthreads /\ collect_lock')]_vars
  /\ [][(last_call'.seq # last_call.seq /\ last_call'.op = "start_provisioning"
         /\ provision_lock) => (pthreads' = pthreads /\ provision_lock')]_vars
  /\ [](/\ collect_lock => LiveCollectors >= 1
        /\ provision_lock => LiveProvisioners >= 1
        /\ last_call.fresh =>
             /\ collect_lock => LiveCollectors = 1
             /\ provision_lock => LiveProvisioners = 1)

\* start-collecting was called while the collector was running
C8_SecondStart ==
  /\ last_call.op = "start_collecting"
  /\ last_call.locked
  /\ last_call.fresh
  /\ LiveCollectors = 1

\* C9: a stop call made while the run flag is not held raises nothing and
\* changes nothing: neither flag, no thread, no other field of the bridge.
C9_StopWhenIdle ==
  [][(/\ last_call'.seq # last_call.seq
      /\ \/ last_call'.op = "stop_collecting" /\ ~collect_lock
         \/ last_call'.op = "stop_provisioning" /\ ~provision_lock)
     => /\ ~last_call'.raised
        /\ UNCHANGED <<bridge, register_definitions, collect_lock, provision_lock,
                       cthreads, pthreads, client_data_msg, client_data,
                       changed_registers, ticks_ms, image, device, req_writes,
                       write_result, led, wifi>>]_vars

\* stop-collecting was called with no collector running
C9_StoppedIdle ==
  /\ last_call.op = "stop_collecting"
  /\ ~last_call.locked
  /\ ~last_call.raised

\* C10 as stated: once stop-collecting has returned no collector is alive
C10_StopBlocks ==
  (last_call.op = "stop_collecting") => (LiveCollectors = 0)

\* number of the threads that are in a read-all pass
InPass(threads) ==
  BagCardinality([th \in {t \in BagToSet(threads) : t.pc \in {"read", "publish"}}
                    |-> threads[th]])

\* C10: stop-collecting releases the run flag and returns without waiting
\* for the worker: the call ends no thread; a worker ends only at a loop test
\* that finds the flag released, and begins a read-all pass only at a loop
\* test that finds the flag held, so the pass under way when stop returns is
\* still completed and published.
C10_StopSignalsOnly ==
  /\ [][(last_call'.seq # last_call.seq /\ last_call'.op = "stop_collecting")
          => (cthreads' = cthreads /\ ~collect_lock')]_vars
  /\ [][LiveCollectors' < LiveCollectors => ~collect_lock]_vars
  /\ [][InPass(cthreads') > InPass(cthreads) => collect_lock]_vars

\* stop-collecting has returned and a collector is about to publish
C10_PublishAfterStop ==
  /\ last_call.op = "stop_collecting"
  /\ last_call.locked
  /\ ~collect_lock
  /\ \E th \in Collectors : th.pc = "publish"

\* number of the threads in time.sleep(); of those whose interval is over
Sleepers(threads) ==
  BagCardinality([th \in {t \in BagToSet(threads) : t.pc = "sleep"}
                    |-> threads[th]])

SleptOut(threads) ==
  BagCardinality([th \in {t \in BagToSet(threads) :
                            t.pc = "sleep" /\ t.slept >= collect_interval}
                    |-> threads[th]])

\* C11 as stated, its third part: with the run flag cleared the sleep holds
\* no collector any longer, the sleep call of each sleeping thread returns
C11_SleepCutShort ==
  \A th \in Collectors :
    (th.pc = "sleep" /\ ~collect_lock) => SleepReturns(th.slept, collect_lock)

\* C11: once the run flag is cleared, and unless it is acquired again, every
\* collector ends; no read-all pass begins while the flag is cleared; but a
\* sleep is never cut short: a thread leaves time.sleep() only when the whole
\* interval is over, whatever the flag.
C11_ExitsAfterSleep ==
  /\ (~collect_lock) ~> (collect_lock \/ LiveCollectors = 0)
  /\ [][(~collect_lock /\ ~collect_lock') =>
          InPass(cthreads') <= InPass(cthreads)]_vars
  /\ [][Sleepers(cthreads') < Sleepers(cthreads) =>
          SleptOut(cthreads') < SleptOut(cthreads)]_vars

\* the run flag is cleared and a collector is still in its sleep, with the
\* interval not yet over
C11_AsleepAfterStop ==
  /\ last_call.op = "stop_collecting"
  /\ ~collect_lock
  /\ \E th \in Collectors : th.pc = "sleep" /\ th.slept < collect_interval

\* addresses of a class in a batch or in a returned dict; none when the
\* class has no key there
AddressesIn(d, reg_type) ==
  IF reg_type \in DOMAIN d THEN DOMAIN d[reg_type] ELSE {}

\* C12: after a call of write_all_registers, for each of the classes COILS
\* and HREGS, the failed and the successful dict share no address, together
\* they hold exactly the addresses of the batch, each with the entry of the
\* batch, and an address is in failed exactly when its requester write raised
\* or returned a false status.
C12_WritePartition ==
  \A reg_type \in {"COILS", "HREGS"} :
    LET input  == AddressesIn(write_result.batch, reg_type)
        failed == AddressesIn(write_result.failed, reg_type)
        successful == AddressesIn(write_result.successful, reg_type)
    IN  /\ failed \cap successful = {}
        /\ failed \cup successful = input
        /\ \A a \in input :
             a \in failed <=>
               write_result.outcomes[<<reg_type, a>>] \in {"raise", "false"}
        /\ \A a \in failed : write_result.failed[reg_type][a] = write_result.batch[reg_type][a]
        /\ \A a \in successful :
             write_result.successful[reg_type][a] = write_result.batch[reg_type][a]

\* a call on a batch with two entries in each class, where one write of a
\* class failed and the other went through, one by raising and one by a
\* false status
C12_MixedBatch ==
  /\ \A reg_type \in {"COILS", "HREGS"} :
       /\ AddressesIn(write_result.batch, reg_type) = BatchAddresses
       /\ AddressesIn(write_result.failed, reg_type) # {}
       /\ AddressesIn(write_result.successful, reg_type) # {}
  /\ \E ck \in DOMAIN write_result.outcomes : write_result.outcomes[ck] = "raise"
  /\ \E ck \in DOMAIN write_result.outcomes : write_result.outcomes[ck] = "false"

\* the classes of the four that the register file defines
PresentClasses == {RegTypes[i] : i \in 1..Len(RegTypes)} \cap DOMAIN register_definitions

\* keys of the definitions of a class for which the pass of a thread has a
\* read that ended as `outcome`
KeysRead(th, reg_type, outcome) ==
  {k \in DOMAIN register_definitions[reg_type] :
     \E i \in 1..Len(th.reads) :
       /\ th.reads[i].key = k
       /\ th.reads[i].starting_addr = register_definitions[reg_type][k].register
       /\ th.reads[i].outcome = outcome}

\* a pass in which a read has raised
RaisedInPass(th) ==
  \E i \in 1..Len(th.reads) : th.reads[i].outcome = "raise"

\* a defined register is missing from the published snapshot
Omission ==
  \E reg_type \in PresentClasses :
    /\ reg_type \in DOMAIN client_data_msg
    /\ DOMAIN client_data_msg[reg_type] # DOMAIN register_definitions[reg_type]

\* C13: a requester read that raises ends neither the pass nor the worker.
\* At the end of a pass every definition of every present class has been
\* read, and the result holds, per present class, exactly the registers
\* whose read did not raise; the result is what the worker publishes; and a
\* pass in which a read raised does get to its end and is published, with
\* that register left out.
C13_BadRegisterOmitted ==
  /\ [](\A th \in Collectors : th.pc = "publish" =>
          /\ DOMAIN th.read_content = PresentClasses
          /\ \A reg_type \in PresentClasses :
               /\ KeysRead(th, reg_type, "ok") \cup KeysRead(th, reg_type, "raise")
                    = DOMAIN register_definitions[reg_type]
               /\ DOMAIN th.read_content[reg_type] = KeysRead(th, reg_type, "ok"))
  /\ [][LiveCollectors' >= LiveCollectors]_vars
  /\ [][client_data_msg' # client_data_msg =>
          \E th \in Collectors :
            th.pc = "publish" /\ client_data_msg' = th.read_content]_vars
  /\ (\E th \in Collectors : th.pc = "read" /\ RaisedInPass(th))
       ~> (Omission /\ InPass(cthreads) = 0)

\* a pass at its end in which a read raised and a later read went through
C13_ReadOnAfterRaise ==
  \E th \in Collectors :
    /\ th.pc = "publish"
    /\ \E i, j \in 1..Len(th.reads) :
         i < j /\ th.reads[i].outcome = "raise" /\ th.reads[j].outcome = "ok"

\* the requester read each definition of the register file calls for
ReadsCalledFor ==
  UNION {{[op |-> opc[2], key |-> k,
           starting_addr |-> register_definitions[opc[1]][k].register,
           qty |-> register_definitions[opc[1]][k].len] :
            k \in DOMAIN register_definitions[opc[1]]} :
         opc \in {o \in {<<"COILS", "read_coils">>,
                         <<"HREGS", "read_holding_registers">>,
                         <<"ISTS", "read_discrete_inputs">>,
                         <<"IREGS", "read_input_registers">>} :
                   o[1] \in DOMAIN register_definitions}}

\* C14: a read-all pass issues exactly one requester read per definition of
\* each of the classes COILS, HREGS, ISTS and IREGS that the file has, with
\* the read operation of the class and the address and length of the
\* definition, and no other read (none for a class the file lacks, none for
\* CONNECTION); its result has exactly the present classes as keys, and the
\* entry of a register that was read holds the address of its definition
\* and the value read.
C14_OneReadPerDefinition ==
  \A th \in Collectors :
    LET issued == {[op |-> th.reads[i].op, key |-> th.reads[i].key,
                    starting_addr |-> th.reads[i].starting_addr,
                    qty |-> th.reads[i].qty] : i \in 1..Len(th.reads)}
    IN  /\ issued \subseteq ReadsCalledFor
        /\ Cardinality(issued) = Len(th.reads)
        /\ th.pc = "publish" =>
             /\ issued = ReadsCalledFor
             /\ DOMAIN th.read_content = PresentClasses
             /\ \A r \in PresentClasses : \A k \in DOMAIN th.read_content[r] :
                  LET def == register_definitions[r][k]
                      entry == th.read_content[r][k]
                  IN  /\ entry.register = def.register
                      /\ entry.val =
                           IF def.len = 1 THEN device[r][def.register]
                           ELSE [i \in 1..def.len |-> device[r][def.register + i - 1]]

\* a pass at its end, over a file that lacks a class and has a CONNECTION
\* section, in which every read went through
C14_PassOverPlant ==
  \E th \in Collectors :
    /\ th.pc = "publish"
    /\ "CONNECTION" \in DOMAIN register_definitions
    /\ "ISTS" \notin DOMAIN register_definitions
    /\ Len(th.reads) = 4
    /\ \A i \in 1..Len(th.reads) : th.reads[i].outcome = "ok"

\* the CONNECTION section of the file given to __init__; empty if the file
\* has none
Section ==
  IF bridge.file.exists /\ "CONNECTION" \in DOMAIN bridge.file.content
  THEN bridge.file.content["CONNECTION"] ELSE EmptyDict

\* the section maps labels to connection blocks
Labelled == Section # EmptyDict /\ DOMAIN Section \cap ConnectionKeys = {}

\* the section is itself a connection block
Flat == Section # EmptyDict /\ DOMAIN Section \subseteq ConnectionKeys

\* __init__ has returned or raised
Ended == bridge.constructed # "no"

\* no connection setting and no unit has been set
NothingPopulated ==
  /\ bridge.connection_settings_host = EmptyDict
  /\ bridge.connection_settings_client = EmptyDict
  /\ bridge.host_unit = "0"
  /\ bridge.client_unit = "0"

\* C15: for a file whose CONNECTION section maps labels to blocks,
\* construction completes with a client connection exactly when some block
\* has mode slave and all required keys, and with a host connection exactly
\* when some block has mode master and all required keys; with the blocks a
\* (slave) and b (master) the client connection is a and the host
\* connection is b.
C15_LabelledBlocksAdopted ==
  (Ended /\ Labelled) =>
    LET complete(mode) ==
          \E label \in DOMAIN Section :
            /\ {"type", "unit", "address", "mode"} \subseteq DOMAIN Section[label]
            /\ Section[label]["mode"] = mode
    IN  /\ bridge.connection_settings_client # EmptyDict <=> complete("slave")
        /\ bridge.connection_settings_host # EmptyDict <=> complete("master")
        /\ DOMAIN Section = {"a", "b"} =>
             /\ bridge.connection_settings_client = Section["a"]
             /\ bridge.connection_settings_host = Section["b"]

\* C17 as stated: a block of type rtu without a baudrate makes construction
\* fail, whatever other keys the block has or lacks
C17_RtuWithoutBaudrateFails ==
  (Ended /\ Flat /\ "type" \in DOMAIN Section /\ Section["type"] \in {"rtu", "RTU"}
     /\ "baudrate" \notin DOMAIN Section)
    => bridge.constructed = "failed"

\* C17: a block of type rtu without a baudrate that has all the required
\* keys makes construction fail, with nothing populated, whatever its unit
\* and mode are and whatever further keys it has; one that lacks a required
\* key is skipped with a warning like any other such block, and
\* construction completes.
C17_CompleteRtuWithoutBaudrateFails ==
  (Ended /\ Flat /\ "type" \in DOMAIN Section /\ Section["type"] \in {"rtu", "RTU"}
     /\ "baudrate" \notin DOMAIN Section)
    => /\ NothingPopulated
       /\ IF {"type", "unit", "address", "mode"} \subseteq DOMAIN Section
          THEN /\ bridge.constructed = "failed"
               /\ bridge.error = "Missing baudrate in connection config"
          ELSE /\ bridge.constructed = "yes"
               /\ bridge.warned = "Missing required keys"

\* construction has failed on an rtu block without a baudrate whose unit is
\* no int and whose mode is unknown
C17_FailedWhateverElse ==
  /\ bridge.constructed = "failed"
  /\ bridge.error = "Missing baudrate in connection config"
  /\ Section["unit"] = "'502'"
  /\ Section["mode"] = "peer"
  /\ "parity" \in DOMAIN Section

\* the block is one the code has no reason to reject
Acceptable(block) ==
  /\ {"type", "unit", "address", "mode"} \subseteq DOMAIN block
  /\ block["type"] \in {"rtu", "RTU", "tcp", "TCP"}
  /\ block["type"] \in {"rtu", "RTU"} => "baudrate" \in DOMAIN block
  /\ block["unit"] = "502"
  /\ block["mode"] \in {"slave", "master", "Master"}

\* C18: a connection block that lacks a required key is skipped with a
\* warning: construction completes and no connection setting and no unit is
\* set; and a complete block is adopted with its further keys, which do not
\* stand in its way.
C18_IncompleteBlockSkipped ==
  /\ (Ended /\ Flat /\ ~({"type", "unit", "address", "mode"} \subseteq DOMAIN Section))
       => /\ bridge.constructed = "yes"
          /\ bridge.warned = "Missing required keys"
          /\ NothingPopulated
  /\ (Ended /\ Flat /\ Acceptable(Section))
       => /\ bridge.constructed = "yes"
          /\ Section \in {bridge.connection_settings_host,
                          bridge.connection_settings_client}

\* construction has completed on a block that names a mode and a type but
\* lacks the address
C18_SkippedBlock ==
  /\ bridge.constructed = "yes"
  /\ Flat
  /\ DOMAIN Section = {"type", "unit", "mode", "baudrate"}
  /\ Section["mode"] = "slave"

\* C19: for a block with all required keys, construction fails when the
\* type is neither rtu nor tcp, when the unit is no int, or when the mode is
\* neither master nor slave; and when it fails, no connection setting and
\* no unit has been set from the block.
C19_InvalidBlockFails ==
  (Ended /\ Flat /\ {"type", "unit", "address", "mode"} \subseteq DOMAIN Section)
    => /\ (\/ Section["type"] = "usb"
           \/ Section["unit"] = "'502'"
           \/ Section["mode"] = "peer") => bridge.constructed = "failed"
       /\ bridge.constructed = "failed" =>
            /\ NothingPopulated
            /\ bridge.error \in {"Missing baudrate in connection config",
                                 "Unknown connection type",
                                 "Connection unit shall be int",
                                 "Unknown connection mode"}

\* construction has failed on a block that is in order but for its mode
C19_UnknownMode ==
  /\ bridge.constructed = "failed"
  /\ bridge.error = "Unknown connection mode"
  /\ Section["type"] = "TCP"
  /\ Section["unit"] = "502"

\* C20: when the register file does not exist, construction fails with an
\* error, and no worker is started at any time: both run flags stay
\* unlocked and there is no worker thread.
C20_MissingFileFails ==
  ~bridge.file.exists =>
    /\ bridge.constructed # "yes"
    /\ Ended => (bridge.constructed = "failed"
                   /\ bridge.error = "Given register file does not exist")
    /\ ~collect_lock /\ ~provision_lock
    /\ LiveCollectors = 0 /\ LiveProvisioners = 0

\* construction has failed for want of the file
C20_FailedOnMissingFile ==
  ~bridge.file.exists /\ bridge.constructed = "failed"

\* C16: a block of mode slave that construction adopts sets the client
\* settings and the client unit and leaves the host settings and the host
\* unit alone, and a block of mode master the other way round; and whenever
\* setup_connection builds a handle, the requester (a master) is built from
\* the client settings and the responder (a slave) from the host settings.
C16_RoleInversion ==
  /\ [][(bridge.constructed = "no" /\ bridge'.constructed = "yes" /\ Section # EmptyDict)
          => /\ Section["mode"] = "slave" =>
                  /\ bridge'.connection_settings_client = Section
                  /\ bridge'.client_unit = Section["unit"]
                  /\ bridge'.connection_settings_host = bridge.connection_settings_host
                  /\ bridge'.host_unit = bridge.host_unit
             /\ Section["mode"] = "master" =>
                  /\ bridge'.connection_settings_host = Section
                  /\ bridge'.host_unit = Section["unit"]
                  /\ bridge'.connection_settings_client = bridge.connection_settings_client
                  /\ bridge'.client_unit = bridge.client_unit]_vars
  /\ [][(bridge'.host # bridge.host \/ bridge'.client # bridge.client)
          => /\ bridge'.host.kind \in {"None", "ModbusRTUMaster", "ModbusTCPMaster"}
             /\ bridge'.host.kind # "None" =>
                  bridge'.host.cfg = bridge.connection_settings_client
             /\ bridge'.client.kind \in {"None", "ModbusRTU", "ModbusTCP"}
             /\ bridge'.client.kind # "None" =>
                  bridge'.client.cfg = bridge.connection_settings_host]_vars

\* the block of mode slave of the file has been adopted and the requester
\* has been built from it, for the address the block names
C16_RequesterFromSlaveBlock ==
  /\ Section # EmptyDict
  /\ Section["mode"] = "slave"
  /\ bridge.connection_settings_client = Section
  /\ bridge.host.kind = "ModbusTCPMaster"
  /\ bridge.host.cfg = Section
  /\ bridge.host.address = "x"

\* C21: a worker whose loop has ended, by an error raised in it as much as
\* by a stop call, leaves its running flag reading not-running (so that the
\* next start call finds the flag free and starts a new worker): a flag
\* never reads running when no worker of its kind is left.
C21_ErrorActsAsStop ==
  /\ LiveCollectors = 0 => ~collect_lock
  /\ LiveProvisioners = 0 => ~provision_lock

\* a step of setup_connection()
SetupStep == bridge'.setup # bridge.setup

\* the host connection is of this type
HostType(type) ==
  Lower(Get(bridge.connection_settings_host, "type", "")) = type

\* neither the station nor the access point yields an address
NoNetwork(setup) == ~setup.network

C23_ValidSettingsSetUp ==
  [][(/\ SetupStep
      /\ bridge.connection_settings_client \in ValidBlocks
      /\ bridge.connection_settings_host \in ValidBlocks
      /\ bridge'.setup.bound # "raise")
       => /\ bridge'.error = "none"
          /\ bridge'.host.kind # "None"
          /\ bridge'.host.cfg = bridge.connection_settings_client
          /\ bridge'.client.kind # "None"
          /\ bridge'.client.cfg = bridge.connection_settings_host]_vars

\* C24: a running provisioner calls process() in every loop iteration before
\* the sync check and whether or not a sync is due: the check is made right
\* after a process() call, a sync cycle under way is the only one begun
\* since the last process() call, and a thread at the loop test whose lock
\* is held goes on to nothing but the check, by way of process()
C24_ProcessEveryIteration ==
  /\ [](\A th \in Provisioners :
          /\ th.syncs <= 1
          /\ th.pc = "gate" => th.syncs = 0
          /\ th.pc \notin {"loop", "gate"} => th.syncs = 1)
  /\ [][\A th \in Provisioners :
          (/\ th.pc = "loop"
           /\ provision_lock
           /\ \A new \in Provisioners' : new.pc # "loop")
            => [th EXCEPT !.pc = "gate", !.syncs = 0] \in Provisioners']_vars

\* a sync cycle is over, the next one is already due, and the thread is back
\* at the loop test, before process()
C24_DueAgainAtLoopTest ==
  \E th \in Provisioners :
    /\ th.pc = "loop"
    /\ th.syncs = 1
    /\ SyncDue(th.since_update)
    /\ provision_lock

\* C25: a sync cycle begins only when more than the sync interval has gone
\* by since the reference time, which is the start of the thread or the
\* beginning of its previous sync: the step that begins a cycle finds the
\* time since the reference strictly above the interval and resets it, and a
\* process() call or a sync check that finds no sync due leaves the
\* reference unchanged
C25_SyncGating ==
  [][\A th \in Provisioners : \A new \in Provisioners' :
       /\ new.syncs = th.syncs + 1
            => th.since_update > sync_interval /\ new.since_update = 0
       /\ (th.pc = "gate" /\ new.pc = "loop")
            => /\ th.since_update <= sync_interval
               /\ new.since_update = th.since_update
               /\ new.syncs = th.syncs
       /\ (th.pc = "loop" /\ new.pc = "gate")
            => new.since_update = th.since_update]_vars

\* a thread that made a sync earlier is at the sync check again, and no
\* sync is due
C25_CheckedNotDue ==
  \E th \in Provisioners :
    /\ th.pc = "gate"
    /\ th.retried # {}
    /\ th.since_update <= sync_interval

\* C26: publication replaces the snapshot and does not merge into it: what
\* the collector publishes is exactly the content of the pass just read,
\* and what the provisioner takes at the start of its pull phase, once a
\* snapshot is published, is exactly the latest published one, so a register
\* that the latest pass omitted is absent from it whatever earlier snapshots
\* held
C26_ReplaceNotMerge ==
  [][/\ client_data_msg' # client_data_msg
          => \E th \in Collectors :
               th.pc = "publish" /\ client_data_msg' = th.read_content
     /\ (/\ \E th \in Provisioners : th.pc = "pull"
         /\ \A new \in Provisioners' : new.pc # "pull"
         /\ client_data_msg # EmptyDict)
          => /\ client_data' = client_data_msg
             /\ \A new \in Provisioners' :
                  new.pc = "set" => new.snapshot = client_data_msg
             /\ \A r \in DOMAIN client_data' :
                  DOMAIN client_data'[r] = DOMAIN client_data_msg[r]]_vars

\* the snapshot consumed last is the latest published one and omits the
\* holding register, of which an earlier snapshot, consumed before, had a
\* changed value that is still in the responder image
C26_OmittedAfterPresent ==
  /\ client_data_msg # EmptyDict
  /\ client_data = client_data_msg
  /\ "HREGS" \in DOMAIN client_data
  /\ "temp" \notin DOMAIN client_data["HREGS"]
  /\ image["HREGS"][1] # DefaultValue("HREGS")

\* C27: when a pull phase completes, the responder image holds, for every
\* class of the snapshot it took and every key of it that carries a val, that
\* val at the register address of the key, in the image of that class; and
\* a pull changes the image nowhere but at such an address, by one setter
\* call for one key of the snapshot
C27_ImageMatchesSnapshot ==
  [][/\ \A th \in Provisioners :
          (th.pc = "set" /\ \A new \in Provisioners' : new.pc # "set")
            => \A r \in DOMAIN th.snapshot : \A k \in DOMAIN th.snapshot[r] :
                 "val" \in DOMAIN th.snapshot[r][k]
                   => image'[r][th.snapshot[r][k].register]
                        = th.snapshot[r][k].val
     /\ image' # image
          => \E th \in Provisioners :
               /\ th.pc = "set"
               /\ \E r \in DOMAIN th.snapshot : \E k \in DOMAIN th.snapshot[r] :
                    /\ "val" \in DOMAIN th.snapshot[r][k]
                    /\ image' = [image EXCEPT
                                   ![r][th.snapshot[r][k].register] =
                                      th.snapshot[r][k].val]]_vars

\* a pull phase is over that set a changed holding register and the input
\* status from one snapshot
C27_PulledBothClasses ==
  /\ \E th \in Provisioners : th.pc = "loop" /\ th.syncs = 1
  /\ DOMAIN client_data = {"HREGS", "ISTS"}
  /\ "temp" \in DOMAIN client_data["HREGS"]
  /\ "alarm" \in DOMAIN client_data["ISTS"]
  /\ client_data["HREGS"]["temp"].val = "22"
  /\ image["HREGS"][1] = "22"
  /\ image["ISTS"][1] = client_data["ISTS"]["alarm"].val

\* C28: no step of the collector with its read-all pass, of the provisioner
\* with its push through write_all_registers and its pull, of the host or of
\* the clock changes the register definitions, the connection settings or
\* the units
C28_CatalogImmutable ==
  [][/\ register_definitions' = register_definitions
     /\ bridge'.connection_settings_host = bridge.connection_settings_host
     /\ bridge'.connection_settings_client = bridge.connection_settings_client
     /\ bridge'.host_unit = bridge.host_unit
     /\ bridge'.client_unit = bridge.client_unit]_vars

\* both workers have done their work, a pass that was published and
\* pulled and a push with a requester write, and the definitions are those
\* of the file
C28_WorkedOnFileAsLoaded ==
  /\ register_definitions = SmallFile
  /\ client_data # EmptyDict
  /\ image["HREGS"][1] # DefaultValue("HREGS")
  /\ req_writes # {}
  /\ \E th \in Provisioners : th.pc = "loop" /\ th.syncs = 1
  /\ \E th \in Collectors : th.pc = "sleep"

C30_PullOverwritesHostWrite ==
  [][\A th \in Provisioners :
       (/\ th.pc = "set"
        /\ \A new \in Provisioners' : new.pull # th.pull
        /\ <<NextPull(th.pull)[1],
             th.snapshot[NextPull(th.pull)[1]][NextPull(th.pull)[2]].register>>
             \in req_writes)
         => LET ck == NextPull(th.pull)
                val == th.snapshot[ck[1]][ck[2]]
            IN  image'[ck[1]][val.register] = val.val]_vars

\* the host wrote 22 to the holding register, the write has been pushed to
\* the client, which holds 22, the ledger is empty again, and the pull of
\* the same provisioner has put the 21 of a snapshot taken before the push
\* back into the image
C30_StaleValueOverHostWrite ==
  /\ device["HREGS"][1] = "22"
  /\ image["HREGS"][1] = "21"
  /\ changed_registers["HREGS"] = EmptyDict
  /\ <<"HREGS", 1>> \in req_writes
  /\ "HREGS" \in DOMAIN client_data
  /\ "temp" \in DOMAIN client_data["HREGS"]
  /\ client_data["HREGS"]["temp"].val = "21"
  /\ \E th \in Provisioners : th.pc = "loop" /\ th.syncs = 1

\* C31: whatever the sequence of start and stop calls, a stop followed at
\* once by a start included, at most one collector thread and at most one
\* provisioner thread is in its loop at any time
C31_OneWorkerEach ==
  /\ LiveCollectors <= 1
  /\ LiveProvisioners <= 1

\* a call of the collector's setter, and one of the provisioner's
CollectingSet ==
  /\ last_call'.seq # last_call.seq
  /\ last_call'.op \in {"start_collecting", "stop_collecting"}

ProvisioningSet ==
  /\ last_call'.seq # last_call.seq
  /\ last_call'.op \in {"start_provisioning", "stop_provisioning"}

\* C33: a start or stop of the collector leaves the provisioner's run flag
\* and threads as they are, and a start or stop of the provisioner leaves
\* the collector's
C33_IndependentGates ==
  [][/\ CollectingSet
          => provision_lock' = provision_lock /\ pthreads' = pthreads
     /\ ProvisioningSet
          => collect_lock' = collect_lock /\ cthreads' = cthreads]_vars

\* the collector was stopped by the last call, a collector thread is still
\* alive, and the provisioner runs on with its flag held
C33_CollectorStoppedProvisionerOn ==
  /\ last_call.op = "stop_collecting"
  /\ ~last_call.raised
  /\ last_call.locked
  /\ ~collect_lock
  /\ provision_lock
  /\ LiveProvisioners = 1
  /\ \E th \in Provisioners : th.pc # "loop"

\* the ledger is empty and the image holds, at every register the file
\* defines, what the device holds
Converged ==
  /\ \A r \in DOMAIN changed_registers : changed_registers[r] = EmptyDict
  /\ \A r \in DOMAIN register_definitions \cap AllRegTypes :
       \A k \in DOMAIN register_definitions[r] :
         image[r][register_definitions[r][k].register]
           = device[r][register_definitions[r][k].register]

\* C32 as stated: with both workers running, every requester call going
\* through and a host that stops writing, the ledger is empty and the image
\* equals the device at every defined register from some moment on, for good
C32_EventuallyConverged == <>[]Converged

\* C32 as amended: the same, provided the device too comes to rest: from
\* some moment on its registers change by the writes of the bridge only
C32_ConvergedOnceDeviceRests ==
  <>[][device' = device \/ pthreads' # pthreads]_vars => <>[]Converged

\* the host has made all its writes, the last one has reached the device,
\* and the image holds the value the collector read back from it
C32_ConvergedAfterWrites ==
  /\ Converged
  /\ ticks_ms = MaxWrites
  /\ <<"HREGS", 1>> \in req_writes
  /\ "HREGS" \in DOMAIN client_data
  /\ "temp" \in DOMAIN client_data["HREGS"]
  /\ client_data["HREGS"]["temp"].val = device["HREGS"][1]
  /\ \E th \in Provisioners : th.pc = "loop" /\ th.syncs = 1

\* whether a stored entry has the shape its definition asks for
ShapedAs(reg_type, def, entry) ==
  /\ entry.listed <=> def.len > 1
  /\ IF entry.listed
     THEN /\ Len(entry.val) = def.len
          /\ \A i \in 1..def.len : entry.val[i] \in ValuesOf(reg_type)
     ELSE entry.val \in ValuesOf(reg_type)

\* C34: the value of every entry a read-all pass has collected, and of every
\* entry of the published snapshot, is a single value when its definition
\* has length 1 and a list of exactly as many values as the definition's
\* length when that is greater than 1, whatever the class.
C34_ValueShape ==
  /\ \A th \in Collectors : \A r \in DOMAIN th.read_content :
       \A k \in DOMAIN th.read_content[r] :
         ShapedAs(r, register_definitions[r][k], th.read_content[r][k])
  /\ \A r \in DOMAIN client_data_msg : \A k \in DOMAIN client_data_msg[r] :
       ShapedAs(r, register_definitions[r][k], client_data_msg[r][k])

\* a published snapshot holding a list of two values for the definition of
\* length 2 and single values for the definitions of length 1
C34_ListAndScalarPublished ==
  /\ "HREGS" \in DOMAIN client_data_msg
  /\ "COILS" \in DOMAIN client_data_msg
  /\ "temp" \in DOMAIN client_data_msg["HREGS"]
  /\ "pump" \in DOMAIN client_data_msg["COILS"]
  /\ register_definitions["HREGS"]["temp"].len = 2
  /\ client_data_msg["HREGS"]["temp"].listed
  /\ Len(client_data_msg["HREGS"]["temp"].val) = 2
  /\ ~client_data_msg["COILS"]["pump"].listed
  /\ client_data_msg["COILS"]["pump"].val = device["COILS"][1]

(***************************************************************************)
(* The register definitions replaced between two read-all passes           *)
(***************************************************************************)
\* the register_definitions setter: `if val: self._register_definitions =
\* val`, called while no read-all pass is under way
register_definitions_set(val) ==
  /\ \A th \in Collectors : th.pc \in {"loop", "sleep"}
  /\ register_definitions' =
       IF val # EmptyDict THEN val ELSE register_definitions
  /\ UNCHANGED <<bridge, collect_lock, provision_lock, cthreads, pthreads,
                 client_data_msg, client_data, changed_registers, ticks_ms,
                 image, device, last_call, req_writes, write_result, led, wifi>>

\* files the definitions are replaced by: one without any register class,
\* and the one the bridge was constructed on
KeepFiles == {[CONNECTION |-> TcpMasterBlock], SmallFile}

InitKeep == InitWith(SmallFile)

NextKeep ==
  \/ collecting_client_data_set(TRUE)
  \/ provisioning_host_data_set(TRUE)
  \/ \E th \in BagToSet(cthreads) : Collector(th, ReadOutcomes, {0})
  \/ \E th \in BagToSet(pthreads) : ProvisionerQuiet(th)
  \/ \E value \in RegValues : DeviceChange("HREGS", 1, value)
  \/ \E val \in KeepFiles : register_definitions_set(val)
  \/ Tick

SpecKeep == InitKeep /\ [][NextKeep]_vars

\* C35: the pull phase makes no setter call on the responder while
\* client_data holds nothing, and client_data holds nothing until a pull has
\* taken a published snapshot that is not empty; from then on client_data
\* changes only to the published snapshot, and only if that is not empty, so
\* an empty snapshot published later leaves the one held in place and the
\* pull phase goes on working with it.
C35_KeepsLastSnapshot ==
  [][/\ image' # image => client_data # EmptyDict
     /\ client_data' # client_data
          => /\ client_data_msg # EmptyDict
             /\ client_data' = client_data_msg
     /\ \A th \in Provisioners :
          (th.pc = "pull" /\ \A new \in Provisioners' : new.pc # "pull")
            => /\ client_data' =
                    IF client_data_msg = EmptyDict THEN client_data
                    ELSE client_data_msg
               /\ \A new \in Provisioners' :
                    new.pc = "set" => new.snapshot = client_data']_vars

\* a pull phase at work on the snapshot it took earlier, while the snapshot
\* published last is empty
C35_PullAfterEmptySnapshot ==
  /\ client_data_msg = EmptyDict
  /\ client_data # EmptyDict
  /\ \E th \in Provisioners :
       /\ th.pc = "set"
       /\ th.syncs = 1
       /\ th.snapshot = client_data
  /\ \E th \in Collectors : th.pc = "sleep"

(***************************************************************************)
(* Coil writes of values in either representation                          *)
(***************************************************************************)
\* coil states as a ledger entry or a caller's batch may hold them: the
\* booleans, and the integers 0 and 1 of the writer's docstring
CoilStates == {"False", "True", "0", "1"}

\* the states that mean the coil is on
TrueCoilStates == {"True", "1"}

\* batches of two coil entries, in any of the representations
CoilBatches ==
  {[COILS |-> [a \in BatchAddresses |-> [val |-> v[a], time |-> 0]]] :
     v \in [BatchAddresses -> CoilStates]}

\* calls of write_all_registers alone, on such batches
NextCoil ==
  \E batch \in CoilBatches :
    \E outcomes \in [WrittenKeys(batch) -> {"ok", "false"}] :
      write_all_registers(batch, outcomes)

SpecCoil == InitBatch /\ [][NextCoil]_vars

\* C36: a coil write that went through has sent 0xFF00, so that the client
\* holds the coil on, exactly when the value of the entry is a true coil
\* state, boolean True or integer 1, and 0x0000 otherwise
C36_TrueCoilSendsFF00 ==
  \A a \in BatchAddresses :
    (/\ "COILS" \in DOMAIN write_result.batch
     /\ <<"COILS", a>> \in DOMAIN write_result.outcomes
     /\ write_result.outcomes[<<"COILS", a>>] = "ok")
      => /\ OutputValue("COILS", write_result.batch["COILS"][a].val)
              = IF write_result.batch["COILS"][a].val \in TrueCoilStates
                THEN "0xFF00" ELSE "0x0000"
         /\ device["COILS"][a] = "True"
              <=> write_result.batch["COILS"][a].val \in TrueCoilStates

(***************************************************************************)
(* LedHelper: blinking of the onboard LED                                  *)
(***************************************************************************)
\* the onboard_led property: `not self.led_pin.value()`, the LED being
\* soldered from +3.3V to the pin
onboard_led(l) == l.led_pin = 0

\* the onboard_led setter: HIGH turns the LED off, LOW turns it on
onboard_led_set(l, value) == [l EXCEPT !.led_pin = IF value THEN 0 ELSE 1]

\* the blink_delay setter
blink_delay_set(l, delay_ms) ==
  [l EXCEPT !.blink_delay = IF delay_ms < 1 THEN 1 ELSE delay_ms]

\* variant: a setter that starts a thread at every True
BlinkStartsAlways(value, locked) == value

\* `if value and (not self._blink_lock.locked()):`
BlinkStarts(value, locked) == value /\ ~locked

\* `elif (value is False) and self._blink_lock.locked():`
BlinkStops(value, locked) == (value = FALSE) /\ locked

\* history of a call of the setter
LedNote(l, name, locked, starts) ==
  [op |-> name, locked |-> locked, seq |-> 1 - l.note.seq,
   started |-> l.note.started \/ starts]

\* the blinking setter; the thread gets the delay and the lock
blinking_setter(l, value) ==
  LET starts == BlinkStarts(value, l.blink_lock)
      stops  == ~starts /\ BlinkStops(value, l.blink_lock)
  IN  [l EXCEPT !.blink_lock = IF starts THEN TRUE
                               ELSE IF stops THEN FALSE ELSE @,
                !.bthreads = IF starts
                             THEN Spawn(@, [pc |-> "loop",
                                            delay_ms |-> l.blink_delay])
                             ELSE @,
                !.note = LedNote(l, IF value THEN "start_blinking"
                                             ELSE "stop_blinking",
                                 l.blink_lock, starts)]

\* `led.blinking = value`
blinking_set(value) ==
  /\ value => BagCardinality(led.bthreads) < MaxThreads
  /\ led' = blinking_setter(led, value)
  /\ UNCHANGED <<bridge_vars, wifi>>

\* delays blink_led is called with
BlinkDelays == {0, 250}

\* blink_led(delay_ms): the delay is set, then blinking = True
blink_led(delay_ms) ==
  /\ BagCardinality(led.bthreads) < MaxThreads
  /\ led' = blinking_setter(blink_delay_set(led, delay_ms), TRUE)
  /\ UNCHANGED <<bridge_vars, wifi>>

\* _blink: the test of `while lock.locked():` and, inside the loop, the
\* toggle of the LED
BlinkLoop(th) ==
  /\ th.pc = "loop"
  /\ led' =
       IF led.blink_lock
       THEN [onboard_led_set(led, ~onboard_led(led))
               EXCEPT !.bthreads = Step(@, th, [th EXCEPT !.pc = "sleep"])]
       ELSE [led EXCEPT !.bthreads = Step(@, th, [th EXCEPT !.pc = "off"])]
  /\ UNCHANGED <<bridge_vars, wifi>>

\* time.sleep_ms(delay_ms) returns
BlinkSleep(th) ==
  /\ th.pc = "sleep"
  /\ led' = [led EXCEPT !.bthreads = Step(@, th, [th EXCEPT !.pc = "loop"])]
  /\ UNCHANGED <<bridge_vars, wifi>>

\* `self.onboard_led_off()` after the loop; the thread ends
BlinkOff(th) ==
  /\ th.pc = "off"
  /\ led' = [onboard_led_set(led, FALSE) EXCEPT !.bthreads = Exit(@, th)]
  /\ UNCHANGED <<bridge_vars, wifi>>

Blinker(th) ==
  \/ BlinkLoop(th)
  \/ BlinkSleep(th)
  \/ BlinkOff(th)

\* the LedHelper alone, constructed with the LED pin at either level
InitLed(colors) ==
  /\ register_definitions = SmallFile
  /\ collect_lock = FALSE
  /\ provision_lock = FALSE
  /\ cthreads = EmptyBag
  /\ pthreads = EmptyBag
  /\ client_data_msg = EmptyDict
  /\ client_data = EmptyDict
  /\ changed_registers = [r \in ChangeableRegTypes |-> EmptyDict]
  /\ ticks_ms = 0
  /\ image = [r \in AllRegTypes |-> [a \in Addresses |-> DefaultValue(r)]]
  /\ device = [r \in AllRegTypes |-> [a \in Addresses |-> DefaultValue(r)]]
  /\ last_call = [op |-> "none", locked |-> FALSE, raised |-> FALSE,
                  seq |-> 0, fresh |-> TRUE]
  /\ req_writes = {}
  /\ write_result = [batch |-> EmptyDict, outcomes |-> EmptyDict,
                     raised |-> FALSE,
                     failed |-> EmptyDict, successful |-> EmptyDict]
  /\ bridge = ModbusBridge(FileOf(register_definitions))
  /\ led \in {LedHelper(pin_value, color) : pin_value \in {0, 1}, color \in colors}
  /\ wifi = WifiIdle

InitBlink == InitLed({DefaultColor})

NextBlink ==
  \/ \E value \in BOOLEAN : blinking_set(value)
  \/ \E delay_ms \in BlinkDelays : blink_led(delay_ms)
  \/ \E th \in BagToSet(led.bthreads) : Blinker(th)

SpecBlink == InitBlink /\ [][NextBlink]_vars

\* the same, where the blink threads are scheduled again and again
FairBlink ==
  /\ SpecBlink
  /\ WF_vars(\E th \in BagToSet(led.bthreads) : Blinker(th))

\* C37: if from some moment on the lock of the blinker stays released, a
\* blink thread having been started before, then from some moment on no
\* blink thread is left and the onboard LED is off; the step by which a blink
\* thread ends leaves the LED off; and a call that sets blinking to True
\* while the lock is held starts no thread and leaves the lock held.
C37_BlinkStopsAndOneThread ==
  /\ <>[](~led.blink_lock /\ led.note.started)
       => <>[](led.bthreads = EmptyBag /\ ~onboard_led(led))
  /\ [][/\ BagCardinality(led'.bthreads) < BagCardinality(led.bthreads)
             => ~onboard_led(led')
        /\ (/\ led'.note.seq # led.note.seq
            /\ led'.note.op = "start_blinking"
            /\ led.blink_lock)
             => /\ led'.bthreads = led.bthreads
                /\ led'.blink_lock]_vars

\* blinking, started through blink_led with a delay below 1, was set to
\* False while the lock was held: the lock is released, no blink thread is
\* left and the LED is off
C37_StoppedAndOff ==
  /\ led.note.op = "stop_blinking"
  /\ led.note.locked
  /\ led.note.started
  /\ ~led.blink_lock
  /\ led.bthreads = EmptyBag
  /\ ~onboard_led(led)
  /\ led.blink_delay = 1

(***************************************************************************)
(* LedHelper: the Neopixel and its fading                                  *)
(***************************************************************************)
\* self._pwmtable_8D
pwmtable_8D ==
  <<0, 1, 2, 2, 2, 3, 3, 4, 5, 6, 7, 8, 10, 11, 13, 16, 19, 23, 27, 32, 38,
    45, 54, 64, 76, 91, 108, 128, 152, 181, 215, 255>>

Abs(x) == IF x < 0 THEN 0 - x ELSE x

\* round(a / b) of Python: to the nearest integer, a tie to the even one
Round(a, b) ==
  LET q == a \div b
      r == a % b
  IN  IF 2 * r < b THEN q
      ELSE IF 2 * r > b THEN q + 1
      ELSE IF q % 2 = 0 THEN q ELSE q + 1

\* `[round(ele / ratio) for ele in self.neopixel_color]` with
\* ratio = max(self.neopixel_color) / intensity
Scaled(color, intensity) ==
  [k \in 1..Len(color) |-> Round(color[k] * intensity, MaxOf(color))]

RECURSIVE set_neopixel(_, _)
RECURSIVE neopixel_active_set(_, _)
RECURSIVE neopixel_color_set(_, _)
RECURSIVE neopixel_intensity_set(_, _)

\* variant: a set_neopixel that updates the properties whoever calls it
set_neopixel_always(l, color) ==
  LET shown == [l EXCEPT !.pixel = color] IN
  IF color # Dark
  THEN LET lit == neopixel_active_set(shown, TRUE)
       IN  neopixel_intensity_set(neopixel_color_set(lit, color),
                                  MaxOf(color))
  ELSE IF ~shown.fading THEN neopixel_active_set(shown, FALSE) ELSE shown

\* set_neopixel(rgb=color): the pixel is written, and the properties are
\* updated `if not self.fading`
set_neopixel(l, color) ==
  LET shown == [l EXCEPT !.pixel = color] IN
  IF color # Dark
  THEN LET lit == neopixel_active_set(shown, TRUE)
       IN  IF ~lit.fading
           THEN neopixel_intensity_set(neopixel_color_set(lit, color),
                                       MaxOf(color))
           ELSE lit
  ELSE IF ~shown.fading THEN neopixel_active_set(shown, FALSE) ELSE shown

\* the neopixel_active setter
neopixel_active_set(l, value) ==
  IF value # l.neopixel_active
  THEN LET kept == [l EXCEPT !.neopixel_active = value]
       IN  IF value THEN set_neopixel(kept, kept.neopixel_color)
           ELSE set_neopixel(kept, Dark)
  ELSE l

\* the neopixel_color setter, called with a list
neopixel_color_set(l, color) ==
  IF color # l.neopixel_color
  THEN set_neopixel([l EXCEPT !.neopixel_color = color], color)
  ELSE l

\* the neopixel_intensity setter
neopixel_intensity_set(l, intensity) ==
  LET do_update == /\ l.neopixel_intensity # intensity
                   /\ l.neopixel_active
                   /\ l.neopixel_color # Dark
      cleared == IF intensity = 0 THEN set_neopixel(l, Dark) ELSE l
      kept == [cleared EXCEPT !.neopixel_intensity = intensity]
  IN  IF do_update
      THEN set_neopixel(kept, Scaled(kept.neopixel_color, intensity))
      ELSE kept

\* `min([val for val in self.neopixel_color if val != 0])`
maximum_intensity(color) ==
  CHOOSE m \in {color[k] : k \in 1..Len(color)} \ {0} :
    \A k \in 1..Len(color) : color[k] # 0 => m <= color[k]

\* `self._pwmtable_8D.index(closest_match)`, counted from 0: the first
\* entry of the table that is nearest to the value
closest_match_index(value) ==
  (CHOOSE i \in 1..Len(pwmtable_8D) :
     /\ \A j \in 1..Len(pwmtable_8D) :
          Abs(pwmtable_8D[i] - value) <= Abs(pwmtable_8D[j] - value)
     /\ \A j \in 1..(i - 1) : pwmtable_8D[j] # pwmtable_8D[i]) - 1

\* `[val if ele != 0 else 0 for ele in self.neopixel_color]`
pixel_color(color, val) ==
  [k \in 1..Len(color) |-> IF color[k] # 0 THEN val ELSE 0]

\* the fading setter
fading_setter(l, value) ==
  LET starts == value /\ ~l.fade_lock
      stops  == ~starts /\ (value = FALSE) /\ l.fade_lock
      lit    == neopixel_active_set([l EXCEPT !.fade_lock = TRUE], TRUE)
  IN  [(IF starts
        THEN [lit EXCEPT !.fading = TRUE,
                         !.fthreads = Spawn(@, [pc |-> "begin", n |-> 0,
                                                i |-> 0])]
        ELSE IF stops THEN [l EXCEPT !.fade_lock = FALSE] ELSE l)
         EXCEPT !.note = LedNote(l, IF value THEN "start_fading"
                                             ELSE "stop_fading",
                                 l.fade_lock, starts)]

\* `led.fading = value`
fading_set(value) ==
  /\ value => BagCardinality(led.fthreads) < MaxThreads
  /\ led' = fading_setter(led, value)
  /\ UNCHANGED <<bridge_vars, wifi>>

\* _fade before its while loop: the length of the ramp, which is at least 1
\* as no entry of the table but the first is nearest to a value above 0
FadeBegin(th) ==
  /\ th.pc = "begin"
  /\ led' = [led EXCEPT !.fthreads =
       Step(@, th, [th EXCEPT !.pc = "loop",
                      !.n = closest_match_index(
                              maximum_intensity(led.neopixel_color))])]
  /\ UNCHANGED <<bridge_vars, wifi>>

\* `while lock.locked():`
FadeLoop(th) ==
  /\ th.pc = "loop"
  /\ led' = [led EXCEPT !.fthreads =
       Step(@, th, IF ~led.fade_lock THEN [th EXCEPT !.pc = "off"]
                   ELSE [th EXCEPT !.pc = "up", !.i = 1])]
  /\ UNCHANGED <<bridge_vars, wifi>>

\* one round of `for val in self._pwmtable_8D[:closest_match_index]:`
FadeUp(th) ==
  /\ th.pc = "up"
  /\ led' = [set_neopixel(led, pixel_color(led.neopixel_color,
                                           pwmtable_8D[th.i]))
               EXCEPT !.fthreads =
                 Step(@, th, IF th.i = th.n THEN [th EXCEPT !.pc = "down"]
                             ELSE [th EXCEPT !.i = th.i + 1])]
  /\ UNCHANGED <<bridge_vars, wifi>>

\* one round of the same loop over the reversed ramp
FadeDown(th) ==
  /\ th.pc = "down"
  /\ led' = [set_neopixel(led, pixel_color(led.neopixel_color,
                                           pwmtable_8D[th.i]))
               EXCEPT !.fthreads =
                 Step(@, th, IF th.i = 1 THEN [th EXCEPT !.pc = "loop", !.i = 0]
                             ELSE [th EXCEPT !.i = th.i - 1])]
  /\ UNCHANGED <<bridge_vars, wifi>>

\* `self.neopixel_active = False` after the loop
FadeOff(th) ==
  /\ th.pc = "off"
  /\ led' = [neopixel_active_set(led, FALSE)
               EXCEPT !.fthreads = Step(@, th, [th EXCEPT !.pc = "end"])]
  /\ UNCHANGED <<bridge_vars, wifi>>

\* `self._fading = False`; the thread ends
FadeEnd(th) ==
  /\ th.pc = "end"
  /\ led' = [led EXCEPT !.fading = FALSE, !.fthreads = Exit(@, th)]
  /\ UNCHANGED <<bridge_vars, wifi>>

Fader(th) ==
  \/ FadeBegin(th)
  \/ FadeLoop(th)
  \/ FadeUp(th)
  \/ FadeDown(th)
  \/ FadeOff(th)
  \/ FadeEnd(th)

\* colours the pixel was set to before the fading starts
FadeColors == {<<2, 0, 0>>, <<0, 2, 2>>}

InitFade == InitLed(FadeColors)

NextFade ==
  \/ \E value \in BOOLEAN : fading_set(value)
  \/ \E th \in BagToSet(led.fthreads) : Fader(th)

SpecFade == InitFade /\ [][NextFade]_vars

\* the fade threads inside their while loop
FadeLooping == {th \in BagToSet(led.fthreads) : th.pc \in {"loop", "up", "down"}}

\* C38: while a fade thread is inside its loop the fading property reads
\* True, also after fading was set to False and after it was set to True
\* again, so that no step of a fade thread changes neopixel_color or
\* neopixel_intensity; fading reads False only when no fade thread is inside
\* its loop.
C38_FadingWhileFadeThreadLoops ==
  /\ [](FadeLooping # {} => led.fading)
  /\ [][led'.note = led.note
          => /\ led'.neopixel_color = led.neopixel_color
             /\ led'.neopixel_intensity = led.neopixel_intensity]_vars

(***************************************************************************)
(* wifi_helper: get_wifi_networks                                          *)
(***************************************************************************)
\* scan_info, the names of the fields of a scan entry
scan_info == <<"ssid", "bssid", "channel", "RSSI", "authmode", "hidden">>

\* auth_modes
auth_modes ==
  [m \in 0..4 |-> CASE m = 0 -> "open" [] m = 1 -> "WEP" [] m = 2 -> "WPA-PSK"
                    [] m = 3 -> "WPA2-PSK" [] m = 4 -> "WPA/WPA2-PSK"]

\* `dict(zip(scan_info, x))` and `net['authmode'] = auth_modes[...]`
NetworkDict(x) ==
  [ssid |-> x[1], bssid |-> x[2], channel |-> x[3], RSSI |-> x[4],
   authmode |-> auth_modes[x[5]], hidden |-> x[6]]

\* the key used: sort_key, or RSSI if it is not one of the scan fields
UsedKey(sort_key) ==
  IF \E i \in 1..Len(scan_info) : scan_info[i] = sort_key
  THEN sort_key ELSE "RSSI"

\* list with the entry put behind the last one whose key is not greater
RECURSIVE Inserted(_, _, _)
Inserted(list, net, key) ==
  IF list = <<>> THEN <<net>>
  ELSE IF list[Len(list)][key] <= net[key] THEN Append(list, net)
  ELSE Append(Inserted(SubSeq(list, 1, Len(list) - 1), net, key),
              list[Len(list)])

\* sorted(list, key=lambda k: k[key]): a new list, stably sorted
RECURSIVE sorted(_, _)
sorted(list, key) ==
  IF list = <<>> THEN <<>>
  ELSE Inserted(sorted(SubSeq(list, 1, Len(list) - 1), key),
                list[Len(list)], key)

\* get_wifi_networks(sort_key) on what the scan found: the sorted list is
\* built and dropped, network_list is returned as it is
get_wifi_networks(found_networks, sort_key) ==
  LET network_list == [i \in 1..Len(found_networks) |->
                         NetworkDict(found_networks[i])]
      dropped == sorted(network_list, UsedKey(sort_key))
  IN  network_list

\* the call
GetWifiNetworks ==
  /\ ~wifi.scanned
  /\ wifi' = [wifi EXCEPT !.active = TRUE, !.scanned = TRUE,
                !.network_list = get_wifi_networks(wifi.found_networks,
                                                   wifi.sort_key)]
  /\ UNCHANGED <<bridge_vars, led>>

\* networks in reach: (ssid, bssid, channel, RSSI, authmode, hidden), hidden
\* as the number a boolean is
ScanEntries ==
  {<<"alpha", "b1", 1, 0 - 70, 0, 0>>,
   <<"beta", "b2", 11, 0 - 50, 3, 0>>,
   <<"gamma", "b3", 6, 0 - 60, 4, 1>>}

\* what station.scan() returns: any of these networks in any order
ScanResults ==
  {found \in UNION {[1..n -> ScanEntries] : n \in 0..Cardinality(ScanEntries)} :
     \A i, j \in 1..Len(found) : i # j => found[i] # found[j]}

\* sort keys a caller gives: scan fields with numbers, and no scan field
SortKeys == {"RSSI", "channel", "hidden", "signal"}

InitScan ==
  /\ register_definitions = SmallFile
  /\ collect_lock = FALSE
  /\ provision_lock = FALSE
  /\ cthreads = EmptyBag
  /\ pthreads = EmptyBag
  /\ client_data_msg = EmptyDict
  /\ client_data = EmptyDict
  /\ changed_registers = [r \in ChangeableRegTypes |-> EmptyDict]
  /\ ticks_ms = 0
  /\ image = [r \in AllRegTypes |-> [a \in Addresses |-> DefaultValue(r)]]
  /\ device = [r \in AllRegTypes |-> [a \in Addresses |-> DefaultValue(r)]]
  /\ last_call = [op |-> "none", locked |-> FALSE, raised |-> FALSE,
                  seq |-> 0, fresh |-> TRUE]
  /\ req_writes = {}
  /\ write_result = [batch |-> EmptyDict, outcomes |-> EmptyDict,
                     raised |-> FALSE,
                     failed |-> EmptyDict, successful |-> EmptyDict]
  /\ bridge = ModbusBridge(FileOf(register_definitions))
  /\ led = LedHelper(1, DefaultColor)
  /\ wifi \in {Station("none", {}, FALSE, found, key) :
                 found \in ScanResults, key \in SortKeys}

NextScan == GetWifiNetworks

SpecScan == InitScan /\ [][NextScan]_vars

\* C39: what get_wifi_networks returns is a permutation of the entries of
\* the scan, in ascending order of the sort key given, or of RSSI if the key
\* given is not a field of the scan.
C39_ReturnedSorted ==
  wifi.scanned =>
    /\ Len(wifi.network_list) = Len(wifi.found_networks)
    /\ \A i \in 1..Len(wifi.found_networks) :
         \E j \in 1..Len(wifi.network_list) :
           wifi.network_list[j] = NetworkDict(wifi.found_networks[i])
    /\ \A i, j \in 1..Len(wifi.network_list) :
         i < j => wifi.network_list[i][UsedKey(wifi.sort_key)]
                    <= wifi.network_list[j][UsedKey(wifi.sort_key)]

(***************************************************************************)
(* wifi_helper: connect and _do_connect                                    *)
(***************************************************************************)
\* variant: loops over the networks without a break
BreaksNever(is_connected) == FALSE

\* `if is_connected: break` in the loops over a list and over a dict
Breaks(is_connected) == is_connected

\* whether connect has another network to try after the one at idx
MoreNetworks(args, idx) ==
  args.form \in {"list", "dict"} /\ idx < Len(args.ssid)

\* _do_connect returns is_successfull to connect, which tries the next
\* network or ends
AttemptEnds(st, is_successfull) ==
  LET noted == [st EXCEPT !.attempts[Len(st.attempts)].ok = is_successfull,
                          !.is_connected = is_successfull]
  IN  IF ~Breaks(is_successfull) /\ MoreNetworks(st.args, st.idx)
      THEN [noted EXCEPT !.pc = "attempt", !.idx = st.idx + 1]
      ELSE [noted EXCEPT !.pc = "done"]

\* connect() down to the first _do_connect; a loop over no network makes
\* no call
connect(st, args) ==
  LET called == [st EXCEPT !.active = TRUE, !.args = args, !.attempts = <<>>,
                           !.idx = 0, !.elapsed = 0, !.is_connected = FALSE,
                           !.seq = 1 - st.seq]
  IN  IF called.connected # "none" /\ ~args.reconnect
      THEN [called EXCEPT !.pc = "done", !.is_connected = TRUE]
      ELSE IF args.form \in {"single", "list", "dict"} /\ args.ssid # <<>>
           THEN [called EXCEPT !.connected = "none", !.pc = "attempt", !.idx = 1]
           ELSE [called EXCEPT !.connected = "none", !.pc = "done"]

\* a call of connect while none is under way
Connect(args) ==
  /\ wifi.pc \in {"idle", "done"}
  /\ wifi' = connect(wifi, args)
  /\ UNCHANGED <<bridge_vars, led>>

ConnectOutcomes == {"ok", "raise"}

\* _do_connect down to its wait loop: the test for a connection kept over a
\* soft reset, disconnect and connect, which may raise, and `now`
DoConnect(outcome) ==
  LET begun == [wifi EXCEPT !.attempts =
                  Append(@, [ssid |-> wifi.args.ssid[wifi.idx], ok |-> FALSE])]
  IN
  /\ wifi.pc = "attempt"
  /\ wifi' =
       IF wifi.soft_reset /\ wifi.connected # "none"
       THEN AttemptEnds(begun, TRUE)
       ELSE IF outcome = "raise"
            THEN AttemptEnds([begun EXCEPT !.connected = "none"], FALSE)
            ELSE [begun EXCEPT !.connected = "none", !.pc = "wait",
                               !.elapsed = 0]
  /\ UNCHANGED <<bridge_vars, led>>

\* the wait loop, where it leaves: station.isconnected() inside the timeout,
\* or the timeout over
Poll ==
  /\ wifi.pc = "wait"
  /\ wifi.connected # "none" \/ wifi.elapsed >= wifi.args.timeout
  /\ wifi' = AttemptEnds(wifi, wifi.elapsed < wifi.args.timeout)
  /\ UNCHANGED <<bridge_vars, led>>

\* the network asked for accepts the station
Associate ==
  /\ wifi.pc = "wait"
  /\ wifi.connected = "none"
  /\ wifi.args.ssid[wifi.idx] \in wifi.reachable
  /\ wifi' = [wifi EXCEPT !.connected = wifi.args.ssid[wifi.idx]]
  /\ UNCHANGED <<bridge_vars, led>>

\* time.time() - now moves on by a second; past the timeout its amount no
\* longer matters
WifiTick ==
  /\ wifi.pc = "wait"
  /\ wifi.elapsed < wifi.args.timeout
  /\ wifi' = [wifi EXCEPT !.elapsed = @ + 1]
  /\ UNCHANGED <<bridge_vars, led>>

Ssids == {"home", "office"}

Timeouts == {1, 2}

\* ssid as connect gets it: one network, a list or the keys of a dict of
\* them (a password with each), or neither
ConnectArgs ==
  {[form |-> f, ssid |-> s, timeout |-> t, reconnect |-> r] :
     f \in {"single", "list", "dict", "other"},
     s \in {<<>>, <<"home">>, <<"office">>, <<"home", "office">>,
            <<"office", "home">>},
     t \in Timeouts, r \in BOOLEAN} \
  {a \in [form : {"single", "list", "dict", "other"},
          ssid : {<<>>, <<"home">>, <<"office">>, <<"home", "office">>,
                  <<"office", "home">>},
          timeout : Timeouts, reconnect : BOOLEAN] :
     \/ a.form = "single" /\ Len(a.ssid) # 1
     \/ a.form = "other" /\ a.ssid # <<>>}

InitWifi ==
  /\ register_definitions = SmallFile
  /\ collect_lock = FALSE
  /\ provision_lock = FALSE
  /\ cthreads = EmptyBag
  /\ pthreads = EmptyBag
  /\ client_data_msg = EmptyDict
  /\ client_data = EmptyDict
  /\ changed_registers = [r \in ChangeableRegTypes |-> EmptyDict]
  /\ ticks_ms = 0
  /\ image = [r \in AllRegTypes |-> [a \in Addresses |-> DefaultValue(r)]]
  /\ device = [r \in AllRegTypes |-> [a \in Addresses |-> DefaultValue(r)]]
  /\ last_call = [op |-> "none", locked |-> FALSE, raised |-> FALSE,
                  seq |-> 0, fresh |-> TRUE]
  /\ req_writes = {}
  /\ write_result = [batch |-> EmptyDict, outcomes |-> EmptyDict,
                     raised |-> FALSE,
                     failed |-> EmptyDict, successful |-> EmptyDict]
  /\ bridge = ModbusBridge(FileOf(register_definitions))
  /\ led = LedHelper(1, DefaultColor)
  /\ wifi \in {Station(connected, reachable, soft_reset, <<>>, "RSSI") :
                 connected \in {"none", "home"},
                 reachable \in SUBSET Ssids, soft_reset \in BOOLEAN}

NextWifi ==
  \/ \E args \in ConnectArgs : Connect(args)
  \/ \E outcome \in ConnectOutcomes : DoConnect(outcome)
  \/ Poll
  \/ Associate
  \/ WifiTick

SpecWifi == InitWifi /\ [][NextWifi]_vars

\* the same, where the clock keeps going and the caller of connect keeps
\* running
FairWifi ==
  /\ SpecWifi
  /\ WF_vars(WifiTick)
  /\ WF_vars(Poll)
  /\ WF_vars(\E outcome \in ConnectOutcomes : DoConnect(outcome))

\* a _do_connect call that returned True
Succeeded == {i \in 1..Len(wifi.attempts) : wifi.attempts[i].ok}

\* C40: a connect call made while the station is connected, with reconnect
\* False, is over at once, has returned True, has made no _do_connect call
\* and has left the connection alone; the _do_connect calls of a call are
\* made for the networks given, in their order, none after one that returned
\* True; a call that is over after some _do_connect has returned True iff
\* one of them did, and one that returned False after none succeeded has
\* tried every network given; a wait loop is left with True inside the
\* timeout and with False once the timeout is over, and every _do_connect
\* call and every connect call comes to its end.
C40_ConnectTriesInOrder ==
  /\ [](/\ \A i \in 1..Len(wifi.attempts) :
             /\ i <= Len(wifi.args.ssid)
             /\ wifi.attempts[i].ssid = wifi.args.ssid[i]
             /\ wifi.attempts[i].ok => i = Len(wifi.attempts)
        /\ (wifi.pc = "done" /\ wifi.attempts # <<>>)
             => (wifi.is_connected <=> Succeeded # {})
        /\ (wifi.pc = "done" /\ ~wifi.is_connected)
             => Len(wifi.attempts) = Len(wifi.args.ssid)
        /\ (wifi.pc = "done" /\ Succeeded # {})
             => wifi.idx = Len(wifi.attempts))
  /\ [][/\ (/\ wifi'.seq # wifi.seq
            /\ wifi.connected # "none"
            /\ ~wifi'.args.reconnect)
             => /\ wifi'.pc = "done"
                /\ wifi'.is_connected
                /\ wifi'.attempts = <<>>
                /\ wifi'.connected = wifi.connected
        /\ (wifi.pc = "wait" /\ wifi'.pc # "wait")
             => (wifi'.attempts[Len(wifi.attempts)].ok
                   <=> wifi.elapsed < wifi.args.timeout)
        /\ wifi.pc = "wait" => wifi'.elapsed <= wifi.args.timeout]_vars
  /\ [](wifi.pc \in {"attempt", "wait"} => <>(wifi.pc = "done"))

\* a call on a list of two networks is over: the first did not accept the
\* station inside the timeout, the second did, and True was returned
C40_SecondNetworkConnected ==
  /\ wifi.pc = "done"
  /\ wifi.args.form = "list"
  /\ wifi.args.ssid = <<"home", "office">>
  /\ Len(wifi.attempts) = 2
  /\ ~wifi.attempts[1].ok
  /\ wifi.attempts[2].ok
  /\ wifi.is_connected
  /\ wifi.connected = "office"

====
